---- MODULE Spec2Model ----
(***************************************************************************)
(* Vault unlock, brute-force rate limiting and session lifecycle of the    *)
(* cocobolo storage engine (src-tauri/src/vault/mod.rs, crypto/mod.rs).    *)
(*                                                                         *)
(* Time is counted in ticks of 1/TicksPerSec second.  A handler that reads *)
(* the clock twice (Instant::now()) may see the clock advance between the  *)
(* two reads.  Each handler that runs under one mutex guard is one action; *)
(* unlock_vault takes and releases the RATE_LIMITS mutex several times and *)
(* is therefore split at the points where it holds no lock.                *)
(***************************************************************************)
EXTENDS Integers, Sequences, FiniteSets, TLC

VARIABLES now, vault_file, rate_limits, sessions, next_id, pc, call, ret,
          index, index_file, note_files, next_note, work, nonces, config, dirs

\* The encrypted index and document store: index is a NotesIndex value in
\* memory, index_file the file .cocobolo_notes_index, note_files the files
\* notes/<id>.note, next_note the number of note ids generated so far plus
\* one, work what a call on the store holds between its steps.  config is
\* the AppConfig value of config/mod.rs and dirs what the file system holds
\* at each path a vault can be registered under.  nonces is
\* the set of nonces the random source has handed out in the crypto scope;
\* the other scopes take the nonce of an encryption as an input and leave
\* the set alone.
store_vars == <<index, index_file, note_files, next_note, work, nonces, config, dirs>>

vars == <<now, vault_file, rate_limits, sessions, next_id, pc, call, ret,
          index, index_file, note_files, next_note, work, nonces, config, dirs>>

-----------------------------------------------------------------------------
(* Bounds of the model *)

TicksPerSec == 2
MaxSkew == 1
NumThreads == 2
\* Spec: the unlock and rate-limit scope
MaxFine == 4
MaxSessions == 1
\* SpecSession: the session-lifecycle scope
SessMaxFine == 1
SessMaxJumps == 2
SessMaxSessions == 2
\* SpecBackoff: the backoff schedule
MaxAttempts == 40
\* SpecFolders: the folder operations of NotesIndex
FoldMaxNotes == 1
FoldMaxFolders == 2
FoldMaxPathLen == 3
\* SpecIndex: all operations of NotesIndex
IdxMaxNotes == 1
IdxMaxFolders == 3
IdxMaxPathLen == 5
\* SpecTree: the shape of the folder set
TreeMaxFolders == 3
TreeMaxPathLen == 4
\* SpecMove: move_note while the session is closed or runs out
MoveMaxSleeps == 1
\* SpecCross: two vaults, the note operations on the first
CrossMaxSessions == 2
CrossMaxNotes == 1
\* SpecRace: concurrent create_note and create_folder calls
RaceMaxNotes == 2
\* SpecNotes: the note operations of one caller
NotesMaxFine == 1
NotesMaxNotes == 1
\* SpecStore: the note and folder operations of one caller
StoreMaxSleeps == 1
StoreMaxNotes == 1
\* SpecEdit: saving notes
EditMaxFine == 1
\* SpecCreate: creating notes
CreateMaxFine == 1
CreateMaxNotes == 2

\* SpecCrypto: the nonces the random source hands out, and the sessions
CryptoMaxNonces == 2
CryptoMaxSessions == 1

\* SpecPreview: notes with contents around the preview limit
PreviewMaxNotes == 1

\* SpecLimits: unlock attempts on two vault paths
LimMaxFine == 1
LimMaxJumps == 2

\* SpecConfig: the vaults ever registered
CfgMaxVaults == 3

\* SpecMeta: the life of a vault from its creation
MetaMaxSessions == 1
MetaMaxNotes == 1

(* Program constants *)

SessionTimeoutSecs == 30 * 60
MaxBackoffSecs == 3600
MaxBackoffExp == 12
U32Bits == 32
NonceLen == 12

Vaults == {"v1"}
Passwords == {"pw1", "pw2"}
Salts == {"s1"}
Threads == 1..NumThreads

None == -1
UnknownId == 0

Min(a, b) == IF a < b THEN a ELSE b

RECURSIVE Pow2(_)
Pow2(n) == IF n = 0 THEN 1 ELSE 2 * Pow2(n - 1)

-----------------------------------------------------------------------------
(* The clock *)

JumpTicks == SessionTimeoutSecs * TicksPerSec

Fine(t) == t % JumpTicks

\* The instants a second Instant::now() can return after a first one
\* returned t.
Later(maxFine, t) ==
    {u \in t..(t + MaxSkew) : Fine(u) <= maxFine /\ u \div JumpTicks = t \div JumpTicks}

from_secs(s) == s * TicksPerSec

as_secs(d) == d \div TicksPerSec

-----------------------------------------------------------------------------
(* crypto/mod.rs *)

TestPlaintext == "cocobolo_key_test_vector_2024"

base64_encode(x) == <<"b64", x>>

base64_decode(s) ==
    IF Len(s) = 2 /\ s[1] = "b64" THEN [ok |-> TRUE, v |-> s[2]]
    ELSE [ok |-> FALSE, v |-> <<>>]

derive_key(password, salt) == <<"key", password, salt>>

hash_password(password, salt) == <<"argon2id", salt, password>>

aead_encrypt(key, nonce, plaintext) == <<"ct", key, nonce, plaintext>>

\* ChaCha20Poly1305 decryption: the tag check passes only for the key and
\* the nonce the ciphertext was produced with.
aead_decrypt(key, nonce, ct) ==
    IF Len(ct) = 4 /\ ct[1] = "ct" /\ ct[2] = key /\ ct[3] = nonce
    THEN [ok |-> TRUE, v |-> ct[4]]
    ELSE [ok |-> FALSE, v |-> ""]

Nonce(n) == [id |-> n, len |-> NonceLen]

create_vault_crypto(password, salt, n) ==
    [password_hash |-> hash_password(password, salt),
     salt |-> <<"salt", salt>>,
     key_test_vector |-> base64_encode(aead_encrypt(derive_key(password, salt), Nonce(n), TestPlaintext)),
     key_test_nonce |-> base64_encode(Nonce(n))]

\* SaltString::from_b64
salt_from_b64(s) ==
    IF Len(s) = 2 /\ s[1] = "salt" THEN [ok |-> TRUE, v |-> s[2]]
    ELSE [ok |-> FALSE, v |-> ""]

\* Result<bool, CryptoError> as "true", "false" or the CryptoError variant
verify_key_test_vector(password, vc) ==
    LET salt == salt_from_b64(vc.salt)
        ct == base64_decode(vc.key_test_vector)
        nb == base64_decode(vc.key_test_nonce)
    IN  IF ~salt.ok THEN "PasswordHash"
        ELSE IF ~ct.ok THEN "Decryption"
        ELSE IF ~nb.ok THEN "Decryption"
        ELSE IF nb.v.len # NonceLen THEN "InvalidNonceLength"
        ELSE LET pt == aead_decrypt(derive_key(password, salt.v), nb.v, ct.v)
             IN  IF pt.ok
                 THEN (IF pt.v = TestPlaintext THEN "true" ELSE "false")
                 ELSE "false"

\* Variant: the stored-hash check alone decides.
verify_password_hash_only(password, vc) ==
    LET h == vc.password_hash
    IN  IF ~(Len(h) = 3 /\ h[1] = "argon2id") THEN "PasswordHash"
        ELSE IF h[3] = password THEN "true" ELSE "false"

verify_password(password, vc) ==
    LET h == vc.password_hash
    IN  IF ~(Len(h) = 3 /\ h[1] = "argon2id") THEN "PasswordHash"
        ELSE IF h[3] = password
             THEN verify_key_test_vector(password, vc)
             ELSE "false"

-----------------------------------------------------------------------------
(* The vault metadata file .cocobolo_vault *)

NoCrypto ==
    [password_hash |-> <<>>, salt |-> <<>>, key_test_vector |-> <<>>, key_test_nonce |-> <<>>]

\* VaultInfo; has_crypto is Option::is_some of the crypto field
VaultInfoNew == [is_encrypted |-> FALSE, has_crypto |-> FALSE, crypto |-> NoCrypto]

VaultInfoNewEncrypted(vc) == [is_encrypted |-> TRUE, has_crypto |-> TRUE, crypto |-> vc]

FileMissing == [state |-> "missing", info |-> VaultInfoNew]
FileUnreadable == [state |-> "unreadable", info |-> VaultInfoNew]
FileUnparseable == [state |-> "unparseable", info |-> VaultInfoNew]
FileOk(info) == [state |-> "ok", info |-> info]

\* Metadata whose stored verification hash does not parse.
BadHashCrypto ==
    [create_vault_crypto("pw1", "s1", "n1") EXCEPT !.password_hash = <<"garbage">>]

\* The metadata files a process can find on disk when it starts.
InitFiles ==
    { FileMissing, FileUnreadable, FileUnparseable,
      FileOk(VaultInfoNew),
      FileOk([is_encrypted |-> TRUE, has_crypto |-> FALSE, crypto |-> NoCrypto]),
      FileOk(VaultInfoNewEncrypted(create_vault_crypto("pw1", "s1", "n1"))),
      FileOk(VaultInfoNewEncrypted(BadHashCrypto)) }

vault_exists(v) == vault_file[v].state # "missing"

\* Result of load_vault_info: ok, or the error
load_vault_info(v) ==
    IF ~vault_exists(v) THEN [ok |-> FALSE, err |-> "VaultNotFound", info |-> VaultInfoNew]
    ELSE IF vault_file[v].state # "ok"
         THEN [ok |-> FALSE, err |-> "VaultCorrupted", info |-> VaultInfoNew]
         ELSE [ok |-> TRUE, err |-> "", info |-> vault_file[v].info]

-----------------------------------------------------------------------------
(* RateLimitState *)

\* last_attempt is written by new, record_failed_attempt and reset and read
\* nowhere; the model leaves it out.
RateLimitState_new == [attempts |-> 0, locked_until |-> None]

\* Variant: the lockout is never honoured.
is_locked_never(state, t) == FALSE

is_locked(state, t) ==
    IF state.locked_until # None THEN t < state.locked_until ELSE FALSE

\* Option<Duration>
time_until_unlock(state, t) ==
    IF state.locked_until # None
    THEN (IF t < state.locked_until THEN state.locked_until - t ELSE None)
    ELSE None

\* 2_u32.pow(n) as its two 16-bit halves: a u32 keeps the low 32 bits.
pow_u32(n) ==
    [hi |-> IF n >= 16 /\ n < U32Bits THEN Pow2(n - 16) ELSE 0,
     lo |-> IF n < 16 THEN Pow2(n) ELSE 0]

\* x.min(m) for a u32 x and m < 2^16
min_u32(x, m) == IF x.hi > 0 THEN m ELSE Min(x.lo, m)

\* Variant: the exponent is not clamped before the power is taken.
backoff_seconds_unclamped(attempts) ==
    min_u32(pow_u32(attempts), MaxBackoffSecs)

backoff_seconds(attempts) ==
    min_u32(pow_u32(Min(attempts, MaxBackoffExp)), MaxBackoffSecs)

\* Variant: the failure is not counted.
record_failed_attempt_no_count(state, t) ==
    [attempts |-> state.attempts,
     locked_until |-> t + from_secs(backoff_seconds(state.attempts + 1))]

\* t is the clock reading that locked_until is computed from
record_failed_attempt(state, t) ==
    LET a == state.attempts + 1
    IN  [attempts |-> a,
         locked_until |-> t + from_secs(backoff_seconds(a))]

\* Variant: the counter is cleared but the lockout stays.
reset_keeps_lock(state) == [state EXCEPT !.attempts = 0]

reset(state) == [attempts |-> 0, locked_until |-> None]

\* HashMap::entry(key).or_insert_with(RateLimitState::new)
or_insert(map, v) ==
    IF v \in DOMAIN map THEN map ELSE (v :> RateLimitState_new) @@ map

\* seconds_remaining as computed in unlock_vault and get_rate_limit_status
seconds_remaining(state, t) ==
    IF time_until_unlock(state, t) # None THEN as_secs(time_until_unlock(state, t)) ELSE 0

-----------------------------------------------------------------------------
(* VaultSession *)

\* Variant: the session holds a key derived from no password and no salt.
VaultSession_new_blank(info, key, t) ==
    [vault_info |-> info, encryption_key |-> derive_key("", ""), created_at |-> t,
     last_accessed |-> t]

VaultSession_new(info, key, t) ==
    [vault_info |-> info, encryption_key |-> key, created_at |-> t, last_accessed |-> t]

\* Variant: sessions never expire.
is_expired_never(session, timeout, t) == FALSE

is_expired(session, timeout, t) == t - session.last_accessed > timeout

\* Variant: a lookup does not refresh last_accessed.
update_access_noop(session, t) == session

update_access(session, t) == [session EXCEPT !.last_accessed = t]

SessionTimeout == from_secs(SessionTimeoutSecs)

-----------------------------------------------------------------------------
(* Strings: a String is the sequence of its characters, an Option<String>  *)
(* is the empty sequence (None) or the one-element sequence of the string. *)

NoneStr == <<>>

Some(x) == <<x>>

Slash == <<"/">>

\* str::starts_with
starts_with(s, prefix) ==
    Len(prefix) <= Len(s) /\ SubSeq(s, 1, Len(prefix)) = prefix

\* str::replace: every non-overlapping occurrence of from, left to right
RECURSIVE replace(_, _, _)
replace(s, from, to) ==
    IF Len(s) = 0 THEN <<>>
    ELSE IF starts_with(s, from)
         THEN to \o replace(SubSeq(s, Len(from) + 1, Len(s)), from, to)
         ELSE <<s[1]>> \o replace(Tail(s), from, to)

\* str::split('/'): the segments between the separators, empty ones included
RECURSIVE split(_)
split(s) ==
    IF \A i \in 1..Len(s) : s[i] # "/" THEN <<s>>
    ELSE LET i == CHOOSE j \in 1..Len(s) : s[j] = "/" /\ \A k \in 1..(j - 1) : s[k] # "/"
         IN  <<SubSeq(s, 1, i - 1)>> \o split(SubSeq(s, i + 1, Len(s)))

\* [&str]::join("/")
RECURSIVE join(_)
join(parts) ==
    IF Len(parts) = 0 THEN <<>>
    ELSE IF Len(parts) = 1 THEN parts[1]
         ELSE parts[1] \o Slash \o join(Tail(parts))

\* str::trim, for the whitespace character " "
RECURSIVE trim_start(_)
trim_start(s) ==
    IF Len(s) > 0 /\ s[1] = " " THEN trim_start(Tail(s)) ELSE s

RECURSIVE trim_end(_)
trim_end(s) ==
    IF Len(s) > 0 /\ s[Len(s)] = " " THEN trim_end(SubSeq(s, 1, Len(s) - 1)) ELSE s

trim(s) == trim_end(trim_start(s))

\* A character whose UTF-8 encoding takes two bytes; every other character
\* of the model is ASCII.
TwoByteChar == "e2"

\* char::len_utf8
len_utf8(c) == IF c = TwoByteChar THEN 2 ELSE 1

\* str::len: the length in bytes, one for each character and one more for
\* each that takes two
str_len(s) ==
    Len(s) + Cardinality({i \in 1..Len(s) : len_utf8(s[i]) = 2})

-----------------------------------------------------------------------------
(* Note, NoteMetadata, FolderMetadata *)

MaxTitleLen == 200
MaxPreviewLen == 100
PreviewCut == 97

Untitled == <<"U", "n", "t", "i", "t", "l", "e", "d">>
TextType == "text"
NoteTypes == {"text", "whiteboard"}

\* Note::new_with_type(...).with_tags(...).with_folder(...), under the id
\* uuid::Uuid::new_v4() returned and the time Utc::now() returned
Note_new(id, title, content, note_type, tags, folder_path, t) ==
    [id |-> id, title |-> title, content |-> content, note_type |-> note_type,
     created_at |-> t, updated_at |-> t, tags |-> tags, folder_path |-> folder_path]

\* The number of leading characters of s that take exactly b bytes, or -1
\* when byte b falls inside a character (str::is_char_boundary is false)
chars_in_bytes(s, b) ==
    LET wide == {i \in 1..Len(s) : len_utf8(s[i]) = 2}
        bytes(k) == k + Cardinality({i \in wide : i <= k})
    IN  IF \E k \in 0..Len(s) : bytes(k) = b
        THEN CHOOSE k \in 0..Len(s) : bytes(k) = b
        ELSE -1

\* Lines 144-148: the preview, or a panic: &note.content[..97] panics when
\* byte 97 is not a character boundary
content_preview(content) ==
    IF str_len(content) > MaxPreviewLen
    THEN LET k == chars_in_bytes(content, PreviewCut)
         IN  IF k = -1 THEN [ok |-> FALSE, v |-> <<>>]
             ELSE [ok |-> TRUE, v |-> SubSeq(content, 1, k) \o <<".", ".", ".">>]
    ELSE [ok |-> TRUE, v |-> content]

\* impl From<&Note> for NoteMetadata, where it returns
NoteMetadata_from(note) ==
    [id |-> note.id, title |-> note.title, note_type |-> note.note_type,
     created_at |-> note.created_at, updated_at |-> note.updated_at,
     tags |-> note.tags, folder_path |-> note.folder_path,
     content_preview |-> content_preview(note.content).v]

FolderMetadata_new(path, t) ==
    [path |-> path, name |-> split(path)[Len(split(path))], created_at |-> t]

-----------------------------------------------------------------------------
(* NotesIndex.  Every method takes the index and the time Utc::now()       *)
(* returns and gives the index it leaves; those that return a Result give  *)
(* [ok, index].                                                            *)

NotesIndex_new(t) == [notes |-> <<>>, folders |-> <<>>, last_updated |-> t]

has_folder(folders, path) == \E i \in 1..Len(folders) : folders[i].path = path

add_note(idx, note, t) ==
    [idx EXCEPT !.notes = Append(@, NoteMetadata_from(note)), !.last_updated = t]

\* Variant: the entry of the note is left as it was.
update_note_stale(idx, note, t) == idx

update_note(idx, note, t) ==
    IF \E i \in 1..Len(idx.notes) : idx.notes[i].id = note.id
    THEN LET i == CHOOSE j \in 1..Len(idx.notes) :
                     idx.notes[j].id = note.id
                     /\ \A k \in 1..(j - 1) : idx.notes[k].id # note.id
         IN  [idx EXCEPT !.notes[i] = NoteMetadata_from(note), !.last_updated = t]
    ELSE idx

\* Variant: every entry is removed.
remove_note_all(idx, note_id, t) ==
    [idx EXCEPT !.notes = <<>>, !.last_updated = t]

remove_note(idx, note_id, t) ==
    LET keep(n) == n.id # note_id
    IN  [idx EXCEPT !.notes = SelectSeq(@, keep), !.last_updated = t]

\* Lines 229-236: the parents parts[0..i] for i in 1..parts.len()
RECURSIVE add_parents(_, _, _, _)
add_parents(folders, parts, i, t) ==
    IF i >= Len(parts) THEN folders
    ELSE LET parent_path == join(SubSeq(parts, 1, i))
         IN  add_parents(IF has_folder(folders, parent_path) THEN folders
                         ELSE Append(folders, FolderMetadata_new(parent_path, t)),
                         parts, i + 1, t)

\* Variant: the missing ancestors are not created.
add_folder_no_parents(idx, folder_path, t) ==
    IF Len(folder_path) = 0 THEN [ok |-> FALSE, index |-> idx]
    ELSE IF has_folder(idx.folders, folder_path) THEN [ok |-> FALSE, index |-> idx]
    ELSE [ok |-> TRUE,
          index |-> [idx EXCEPT !.folders = Append(@, FolderMetadata_new(folder_path, t)),
                                !.last_updated = t]]

add_folder(idx, folder_path, t) ==
    IF Len(folder_path) = 0 THEN [ok |-> FALSE, index |-> idx]
    ELSE IF has_folder(idx.folders, folder_path) THEN [ok |-> FALSE, index |-> idx]
    ELSE LET with_parents == add_parents(idx.folders, split(folder_path), 1, t)
         IN  [ok |-> TRUE,
              index |-> [idx EXCEPT
                  !.folders = Append(with_parents, FolderMetadata_new(folder_path, t)),
                  !.last_updated = t]]

\* path == folder_path || path.starts_with(&format!("{}/", folder_path))
in_or_under(path, folder_path) ==
    path = folder_path \/ starts_with(path, folder_path \o Slash)

\* Variant: a plain string prefix decides what is under the folder.
remove_folder_plain_prefix(idx, folder_path, t) ==
    LET has_notes == \E i \in 1..Len(idx.notes) :
                        /\ idx.notes[i].folder_path # NoneStr
                        /\ starts_with(idx.notes[i].folder_path[1], folder_path)
        keep(f) == ~starts_with(f.path, folder_path)
    IN  IF has_notes THEN [ok |-> FALSE, index |-> idx]
        ELSE [ok |-> TRUE,
              index |-> [idx EXCEPT !.folders = SelectSeq(@, keep), !.last_updated = t]]

remove_folder(idx, folder_path, t) ==
    LET has_notes == \E i \in 1..Len(idx.notes) :
                        /\ idx.notes[i].folder_path # NoneStr
                        /\ in_or_under(idx.notes[i].folder_path[1], folder_path)
        keep(f) == f.path # folder_path /\ ~starts_with(f.path, folder_path \o Slash)
    IN  IF has_notes THEN [ok |-> FALSE, index |-> idx]
        ELSE [ok |-> TRUE,
              index |-> [idx EXCEPT !.folders = SelectSeq(@, keep), !.last_updated = t]]

move_note(idx, note_id, new_folder_path, t) ==
    IF \E i \in 1..Len(idx.notes) : idx.notes[i].id = note_id
    THEN LET i == CHOOSE j \in 1..Len(idx.notes) :
                     idx.notes[j].id = note_id
                     /\ \A k \in 1..(j - 1) : idx.notes[k].id # note_id
         IN  [ok |-> TRUE,
              index |-> [idx EXCEPT !.notes[i].folder_path = new_folder_path,
                                    !.notes[i].updated_at = t,
                                    !.last_updated = t]]
    ELSE [ok |-> FALSE, index |-> idx]

\* Lines 289-296 for one folder
move_folder_entry(f, old_path, new_path) ==
    IF f.path = old_path
    THEN [f EXCEPT !.path = new_path, !.name = split(new_path)[Len(split(new_path))]]
    ELSE IF starts_with(f.path, old_path \o Slash)
         THEN [f EXCEPT !.path = replace(@, old_path \o Slash, new_path \o Slash)]
         ELSE f

\* Lines 299-309 for one note
move_folder_note(n, old_path, new_path, t) ==
    IF n.folder_path = NoneStr THEN n
    ELSE IF n.folder_path[1] = old_path
         THEN [n EXCEPT !.folder_path = Some(new_path), !.updated_at = t]
         ELSE IF starts_with(n.folder_path[1], old_path \o Slash)
              THEN [n EXCEPT !.folder_path =
                                 Some(replace(@[1], old_path \o Slash, new_path \o Slash)),
                             !.updated_at = t]
              ELSE n

move_folder(idx, old_path, new_path, t) ==
    IF has_folder(idx.folders, new_path) THEN [ok |-> FALSE, index |-> idx]
    ELSE IF ~has_folder(idx.folders, old_path) THEN [ok |-> FALSE, index |-> idx]
    ELSE [ok |-> TRUE,
          index |-> [notes |-> [i \in 1..Len(idx.notes) |->
                                   move_folder_note(idx.notes[i], old_path, new_path, t)],
                     folders |-> [i \in 1..Len(idx.folders) |->
                                   move_folder_entry(idx.folders[i], old_path, new_path)],
                     last_updated |-> t]]

-----------------------------------------------------------------------------
(* Return values: ret is the value returned by the last step, NoRet when   *)
(* that step returned nothing to a caller.                                 *)

\* val of a get_session that returned None after removing the expired entry
\* (the caller sees None either way).
Evicted == -2

NoRet == [op |-> "none", arg |-> <<>>, res |-> "", val |-> None]

Ret(op, arg, res, val) == [op |-> op, arg |-> arg, res |-> res, val |-> val]

NoCall == [vault |-> "", password |-> "", verdict |-> "", info |-> VaultInfoNew]

Remove(map, k) == [x \in DOMAIN map \ {k} |-> map[x]]

Nonces == {"n1"}

\* A file that does not exist; a file that exists is Some(its content).
NoFile == <<>>

\* No call on the store in flight.
NoWork == [op |-> "none"]

-----------------------------------------------------------------------------
(* config/mod.rs: KnownVault and AppConfig.  The fields the vault          *)
(* management methods neither read nor write (name, created_at,            *)
(* is_favorite, theme, window and editor settings) are left out.           *)

DefaultMaxRecentVaults == 5

CfgPaths == {"p1", "p2", "p3"}

\* What a path is on disk: a writable directory, a directory that cannot be
\* written, a file, or nothing
PathKinds == {"dir", "readonly", "file", "missing"}

NoDirs == [p \in CfgPaths |-> "missing"]

\* KnownVault::new, under the id uuid::Uuid::new_v4() returned
KnownVault_new(id, path) == [id |-> id, path |-> path, last_accessed |-> None]

\* KnownVault::is_valid: path.exists() && path.is_dir()
is_valid(vault) == dirs[vault.path] \in {"dir", "readonly"}

AppConfig_default ==
    [current_vault_id |-> None, known_vaults |-> <<>>, recent_vault_ids |-> <<>>,
     max_recent_vaults |-> DefaultMaxRecentVaults]

has_vault(cfg, vault_id) ==
    \E i \in 1..Len(cfg.known_vaults) : cfg.known_vaults[i].id = vault_id

\* Vec::retain(|id| id != vault_id)
retain_other(ids, vault_id) ==
    LET keep(id) == id # vault_id
    IN  SelectSeq(ids, keep)

\* Variant: the id is put in front without removing its old place.
add_to_recent_vaults_keeping(cfg, vault_id) ==
    LET pushed == <<vault_id>> \o cfg.recent_vault_ids
    IN  [cfg EXCEPT !.recent_vault_ids =
             SubSeq(pushed, 1, Min(Len(pushed), cfg.max_recent_vaults))]

\* Lines 350-359
add_to_recent_vaults(cfg, vault_id) ==
    LET pushed == <<vault_id>> \o retain_other(cfg.recent_vault_ids, vault_id)
    IN  [cfg EXCEPT !.recent_vault_ids =
             SubSeq(pushed, 1, Min(Len(pushed), cfg.max_recent_vaults))]

\* Lines 239-283: Result<String, ConfigError> and the config it leaves
add_known_vault_result(cfg, path, id) ==
    IF dirs[path] = "missing" THEN [res |-> "InvalidVaultPath", val |-> None, config |-> cfg]
    ELSE IF dirs[path] = "file" THEN [res |-> "InvalidVaultPath", val |-> None, config |-> cfg]
    ELSE IF \E i \in 1..Len(cfg.known_vaults) : cfg.known_vaults[i].path = path
         THEN [res |-> "InvalidVaultPath", val |-> None, config |-> cfg]
    ELSE IF dirs[path] = "readonly" THEN [res |-> "InvalidVaultPath", val |-> None, config |-> cfg]
    ELSE [res |-> "Ok", val |-> id,
          config |-> [cfg EXCEPT !.known_vaults = Append(@, KnownVault_new(id, path))]]

\* Variant: the current vault is kept when it is the one removed.
remove_known_vault_result_keeping(cfg, vault_id) ==
    IF ~has_vault(cfg, vault_id) THEN [res |-> "VaultNotFound", val |-> None, config |-> cfg]
    ELSE LET keep(v) == v.id # vault_id
         IN  [res |-> "Ok", val |-> None,
              config |-> [cfg EXCEPT
                             !.known_vaults = SelectSeq(@, keep),
                             !.recent_vault_ids = retain_other(@, vault_id)]]

\* Lines 286-304
remove_known_vault_result(cfg, vault_id) ==
    IF ~has_vault(cfg, vault_id) THEN [res |-> "VaultNotFound", val |-> None, config |-> cfg]
    ELSE LET keep(v) == v.id # vault_id
         IN  [res |-> "Ok", val |-> None,
              config |-> [cfg EXCEPT
                             !.known_vaults = SelectSeq(@, keep),
                             !.current_vault_id = IF @ = vault_id THEN None ELSE @,
                             !.recent_vault_ids = retain_other(@, vault_id)]]

\* Lines 322-340; vault_id is an Option<String>, t the time Utc::now() returned
set_current_vault_result(cfg, vault_id, t) ==
    IF vault_id = None THEN [res |-> "Ok", val |-> None,
                             config |-> [cfg EXCEPT !.current_vault_id = None]]
    ELSE IF ~has_vault(cfg, vault_id)
         THEN [res |-> "VaultNotFound", val |-> None, config |-> cfg]
    ELSE LET touched == [i \in 1..Len(cfg.known_vaults) |->
                            IF cfg.known_vaults[i].id = vault_id
                            THEN [cfg.known_vaults[i] EXCEPT !.last_accessed = t]
                            ELSE cfg.known_vaults[i]]
         IN  [res |-> "Ok", val |-> None,
              config |-> [add_to_recent_vaults([cfg EXCEPT !.known_vaults = touched], vault_id)
                             EXCEPT !.current_vault_id = vault_id]]

\* Lines 397-418: the ids removed and the config it leaves
cleanup_invalid_vaults_result(cfg) ==
    LET removed == {cfg.known_vaults[i].id : i \in {j \in 1..Len(cfg.known_vaults) :
                                                       ~is_valid(cfg.known_vaults[j])}}
        keep_vault(v) == v.id \notin removed
        keep_id(id) == id \notin removed
    IN  [res |-> "Ok", val |-> removed,
         config |-> [cfg EXCEPT
                        !.known_vaults = SelectSeq(@, keep_vault),
                        !.current_vault_id = IF @ \in removed THEN None ELSE @,
                        !.recent_vault_ids = SelectSeq(@, keep_id)]]

-----------------------------------------------------------------------------
(* Initial state: empty RATE_LIMITS and SESSIONS maps, no call in flight,  *)
(* any metadata files on disk.                                             *)

Init ==
    /\ now = 0
    /\ vault_file \in [Vaults -> InitFiles]
    /\ rate_limits = <<>>
    /\ sessions = <<>>
    /\ next_id = 1
    /\ pc = [t \in Threads |-> "idle"]
    /\ call = [t \in Threads |-> NoCall]
    /\ ret = NoRet
    /\ index = NotesIndex_new(0)
    /\ index_file = NoFile
    /\ note_files = <<>>
    /\ next_note = 1
    /\ work = [t \in Threads |-> NoWork]
    /\ nonces = {}
    /\ config = AppConfig_default
    /\ dirs = NoDirs

-----------------------------------------------------------------------------
(* The clock advances *)

Tick(maxFine) ==
    /\ Fine(now) + 1 <= maxFine
    /\ now' = now + 1
    /\ ret' = NoRet
    /\ UNCHANGED <<vault_file, rate_limits, sessions, next_id, pc, call>>
    /\ UNCHANGED store_vars

\* A long idle period: exactly the session timeout elapses.
Jump(maxJumps) ==
    /\ now \div JumpTicks < maxJumps
    /\ now' = now + JumpTicks
    /\ ret' = NoRet
    /\ UNCHANGED <<vault_file, rate_limits, sessions, next_id, pc, call>>
    /\ UNCHANGED store_vars

\* A longer idle period: more than the session timeout elapses.
Sleep(maxSleeps) ==
    /\ now \div JumpTicks < maxSleeps
    /\ now' = now + JumpTicks + 1
    /\ ret' = NoRet
    /\ UNCHANGED <<vault_file, rate_limits, sessions, next_id, pc, call>>
    /\ UNCHANGED store_vars

-----------------------------------------------------------------------------
(* VaultManager::unlock_vault *)

\* Sessions that calls past verification are about to create.
Pending == Cardinality({u \in Threads : pc[u] \in {"reset", "insert"}})

\* Lines 516-529: the rate-limit check, under the RATE_LIMITS mutex.
\* Callers are interchangeable: a new call is the first idle one.
UnlockCheck(maxFine, t, v, password) ==
    /\ pc[t] = "idle"
    /\ \A u \in Threads : u < t => pc[u] # "idle"
    /\ LET map == or_insert(rate_limits, v)
           state == map[v]
       IN  /\ rate_limits' = map
           /\ IF is_locked(state, now)
              THEN \E t2 \in Later(maxFine, now) :
                   /\ now' = t2
                   /\ ret' = Ret("unlock_vault", <<v, password>>, "RateLimited",
                                 seconds_remaining(state, t2))
                   /\ UNCHANGED <<pc, call>>
              ELSE /\ pc' = [pc EXCEPT ![t] = "verify"]
                   /\ call' = [call EXCEPT ![t] =
                          [vault |-> v, password |-> password, verdict |-> "", info |-> VaultInfoNew]]
                   /\ ret' = NoRet
                   /\ UNCHANGED now
    /\ UNCHANGED <<vault_file, sessions, next_id>>
    /\ UNCHANGED store_vars

\* Lines 531-544: load the metadata and verify the password; no lock held.
UnlockVerify(maxSessions, t) ==
    /\ pc[t] = "verify"
    /\ LET v == call[t].vault
           password == call[t].password
           li == load_vault_info(v)
           Fail(err) == /\ pc' = [pc EXCEPT ![t] = "idle"]
                        /\ call' = [call EXCEPT ![t] = NoCall]
                        /\ ret' = Ret("unlock_vault", <<v, password>>, err, None)
       IN  IF ~li.ok THEN Fail("VaultCorrupted")
           ELSE IF ~li.info.is_encrypted THEN Fail("NotEncrypted")
           ELSE IF ~li.info.has_crypto THEN Fail("VaultCorrupted")
           ELSE LET verdict == verify_password(password, li.info.crypto)
                IN  /\ verdict = "true" => next_id + Pending <= maxSessions
                    /\ pc' = [pc EXCEPT ![t] = IF verdict = "true" THEN "reset" ELSE "record"]
                    /\ call' = [call EXCEPT ![t].verdict = verdict, ![t].info = li.info]
                    /\ ret' = NoRet
    /\ UNCHANGED <<now, vault_file, rate_limits, sessions, next_id>>
    /\ UNCHANGED store_vars

\* Lines 549-554: reset the rate limiter, under the RATE_LIMITS mutex.
UnlockReset(t) ==
    /\ pc[t] = "reset"
    /\ LET v == call[t].vault
       IN  rate_limits' = IF v \in DOMAIN rate_limits
                          THEN [rate_limits EXCEPT ![v] = reset(@)]
                          ELSE rate_limits
    /\ pc' = [pc EXCEPT ![t] = "insert"]
    /\ ret' = NoRet
    /\ UNCHANGED <<now, vault_file, sessions, next_id, call>>
    /\ UNCHANGED store_vars

\* Variant: the id is the smallest one not in the map.
new_session_id_reuse == Cardinality(DOMAIN sessions) + 1

\* uuid::Uuid::new_v4(): an id no session ever had.
new_session_id == next_id

\* Lines 556-570: derive the key and insert the session, under the SESSIONS mutex.
UnlockInsert(t) ==
    /\ pc[t] = "insert"
    /\ LET v == call[t].vault
           password == call[t].password
           info == call[t].info
           salt == salt_from_b64(info.crypto.salt)
       IN  IF ~salt.ok
           THEN /\ ret' = Ret("unlock_vault", <<v, password>>, "VaultCorrupted", None)
                /\ UNCHANGED <<sessions, next_id>>
           ELSE LET session_id == new_session_id
                    session == VaultSession_new(info, derive_key(password, salt.v), now)
                IN  /\ sessions' = (session_id :> session) @@ sessions
                    /\ next_id' = next_id + 1
                    /\ ret' = Ret("unlock_vault", <<v, password>>, "Ok", session_id)
    /\ pc' = [pc EXCEPT ![t] = "idle"]
    /\ call' = [call EXCEPT ![t] = NoCall]
    /\ UNCHANGED <<now, vault_file, rate_limits>>
    /\ UNCHANGED store_vars

\* Lines 572-581: record the failed attempt, under the RATE_LIMITS mutex.
UnlockRecord(maxFine, t) ==
    /\ pc[t] = "record"
    /\ LET v == call[t].vault
           password == call[t].password
       IN  \E t2 \in Later(maxFine, now) :
           /\ rate_limits' = [or_insert(rate_limits, v) EXCEPT
                                 ![v] = record_failed_attempt(@, t2)]
           /\ now' = t2
           /\ ret' = Ret("unlock_vault", <<v, password>>, "InvalidPassword", None)
    /\ pc' = [pc EXCEPT ![t] = "idle"]
    /\ call' = [call EXCEPT ![t] = NoCall]
    /\ UNCHANGED <<vault_file, sessions, next_id>>
    /\ UNCHANGED store_vars

-----------------------------------------------------------------------------
(* VaultManager::get_rate_limit_status, get_session, close_session *)

get_rate_limit_status(maxFine, v) ==
    /\ IF v \in DOMAIN rate_limits /\ is_locked(rate_limits[v], now)
       THEN \E t2 \in Later(maxFine, now) :
            /\ now' = t2
            /\ ret' = Ret("get_rate_limit_status", <<v>>, "true",
                          seconds_remaining(rate_limits[v], t2))
       ELSE /\ ret' = Ret("get_rate_limit_status", <<v>>, "false", None)
            /\ UNCHANGED now
    /\ UNCHANGED <<vault_file, rate_limits, sessions, next_id, pc, call>>
    /\ UNCHANGED store_vars

\* The ids a caller can pass: those handed out so far, and one that no
\* unlock ever returned.
KnownIds == UnknownId..(next_id - 1)

get_session(maxFine, session_id) ==
    /\ IF session_id \in DOMAIN sessions
       THEN IF is_expired(sessions[session_id], SessionTimeout, now)
            THEN /\ sessions' = Remove(sessions, session_id)
                 /\ ret' = Ret("get_session", <<session_id>>, "None", Evicted)
                 /\ UNCHANGED now
            ELSE \E t2 \in Later(maxFine, now) :
                 /\ sessions' = [sessions EXCEPT ![session_id] = update_access(@, t2)]
                 /\ now' = t2
                 /\ ret' = Ret("get_session", <<session_id>>, "Some", t2)
       ELSE /\ ret' = Ret("get_session", <<session_id>>, "None", None)
            /\ UNCHANGED <<now, sessions>>
    /\ UNCHANGED <<vault_file, rate_limits, next_id, pc, call>>
    /\ UNCHANGED store_vars

close_session(session_id) ==
    /\ sessions' = Remove(sessions, session_id)
    /\ ret' = Ret("close_session", <<session_id>>,
                  IF session_id \in DOMAIN sessions THEN "true" ELSE "false", None)
    /\ UNCHANGED <<now, vault_file, rate_limits, next_id, pc, call>>
    /\ UNCHANGED store_vars

-----------------------------------------------------------------------------
(* The encrypted index and the note files.  serde_json and the AEAD are    *)
(* tagged tuples, as the crypto above; a file is NoFile or Some(content).  *)

\* serde_json::to_string_pretty
to_json(x) == <<"json", x>>

\* serde_json::from_slice
from_json(s) ==
    IF Len(s) = 2 /\ s[1] = "json" THEN [ok |-> TRUE, v |-> s[2]]
    ELSE [ok |-> FALSE, v |-> <<>>]

\* CryptoManager::encrypt_data, with the nonce generate_nonce returned
encrypt_data(data, key, n) ==
    [ciphertext |-> aead_encrypt(key, Nonce(n), data), nonce |-> Nonce(n)]

\* Variant: the length of the nonce is not checked.
decrypt_data_unchecked(ciphertext, nonce, key) ==
    LET r == aead_decrypt(key, nonce, ciphertext)
    IN  [ok |-> r.ok, err |-> IF r.ok THEN "" ELSE "Decryption", v |-> r.v]

\* CryptoManager::decrypt_data: the plaintext, or the CryptoError
decrypt_data(ciphertext, nonce, key) ==
    IF nonce.len # NonceLen THEN [ok |-> FALSE, err |-> "InvalidNonceLength", v |-> ""]
    ELSE LET r == aead_decrypt(key, nonce, ciphertext)
         IN  [ok |-> r.ok, err |-> IF r.ok THEN "" ELSE "Decryption", v |-> r.v]

\* The envelope, as read by load_notes_index and load_note: the note or the
\* index inside it, or the error
open_envelope(data, key) ==
    LET nonce == base64_decode(data.nonce)
        ct == base64_decode(data.encrypted_content)
    IN  IF ~nonce.ok \/ ~ct.ok THEN [ok |-> FALSE, err |-> "VaultCorrupted", v |-> <<>>]
        ELSE LET pt == decrypt_data(ct.v, nonce.v, key)
             IN  IF ~pt.ok THEN [ok |-> FALSE, err |-> "CryptoError", v |-> <<>>]
                 ELSE IF ~from_json(pt.v).ok
                      THEN [ok |-> FALSE, err |-> "SerializationError", v |-> <<>>]
                      ELSE [ok |-> TRUE, err |-> "", v |-> from_json(pt.v).v]

\* The content of notes/<id>.note that create_note, save_note and move_note write
note_file_data(note, key, n) ==
    LET e == encrypt_data(to_json(note), key, n)
    IN  [nonce |-> base64_encode(e.nonce),
         encrypted_content |-> base64_encode(e.ciphertext),
         created_at |-> note.created_at,
         updated_at |-> note.updated_at]

\* save_notes_index: the content of .cocobolo_notes_index
save_notes_index(idx, key, n) ==
    LET e == encrypt_data(to_json(idx), key, n)
    IN  Some([nonce |-> base64_encode(e.nonce),
              encrypted_content |-> base64_encode(e.ciphertext),
              last_updated |-> idx.last_updated])

\* load_notes_index: the index or the error, and the file as it leaves it
\* (an absent file is created with an empty index)
load_notes_index(file, key, t, n) ==
    IF file = NoFile
    THEN [ok |-> TRUE, err |-> "", index |-> NotesIndex_new(t),
          file |-> save_notes_index(NotesIndex_new(t), key, n)]
    ELSE LET r == open_envelope(file[1], key)
         IN  [ok |-> r.ok, err |-> r.err, index |-> r.v, file |-> file]

\* The closures passed to update_notes_index, as records: the index each
\* leaves.  Those of the folder operations and of move_note drop the Result
\* of the index method (let _ = ...).
call_update_fn(update_fn, idx, t) ==
    CASE update_fn.op = "add_note" -> add_note(idx, update_fn.note, t)
      [] update_fn.op = "update_note" -> update_note(idx, update_fn.note, t)
      [] update_fn.op = "remove_note" -> remove_note(idx, update_fn.note_id, t)
      [] update_fn.op = "move_note" ->
            move_note(idx, update_fn.note_id, update_fn.folder_path, t).index
      [] update_fn.op = "add_folder" -> add_folder(idx, update_fn.folder_path, t).index
      [] update_fn.op = "remove_folder" -> remove_folder(idx, update_fn.folder_path, t).index
      [] update_fn.op = "move_folder" ->
            move_folder(idx, update_fn.old_path, update_fn.new_path, t).index

\* The closure panics: it builds the NoteMetadata of a note whose preview
\* cannot be cut.
closure_panics(update_fn, idx) ==
    /\ \/ update_fn.op = "add_note"
       \/ /\ update_fn.op = "update_note"
          /\ \E i \in 1..Len(idx.notes) : idx.notes[i].id = update_fn.note.id
    /\ ~content_preview(update_fn.note.content).ok

\* update_notes_index: load, apply the closure, save.  A panic of the
\* closure unwinds through the caller: nothing after it runs.
update_notes_index(file, key, t, n, update_fn) ==
    LET l == load_notes_index(file, key, t, n)
    IN  IF ~l.ok THEN [ok |-> FALSE, err |-> l.err, file |-> l.file]
        ELSE IF closure_panics(update_fn, l.index) THEN [ok |-> FALSE, err |-> "panic", file |-> l.file]
        ELSE [ok |-> TRUE, err |-> "",
              file |-> save_notes_index(call_update_fn(update_fn, l.index, t), key, n)]

\* Variant: a lookup returns an expired session as alive.
session_lookup_stale(session_id, t2) ==
    IF session_id \in DOMAIN sessions
    THEN [some |-> TRUE, key |-> sessions[session_id].encryption_key,
          sessions |-> [sessions EXCEPT ![session_id] = update_access(@, t2)]]
    ELSE [some |-> FALSE, key |-> <<>>, sessions |-> sessions]

\* get_session as the note and folder operations call it: whether it
\* returned a session, its key, and the SESSIONS map it leaves; t2 is the
\* clock reading of update_access
session_lookup(session_id, t2) ==
    IF session_id \in DOMAIN sessions
    THEN IF is_expired(sessions[session_id], SessionTimeout, now)
         THEN [some |-> FALSE, key |-> <<>>, sessions |-> Remove(sessions, session_id)]
         ELSE [some |-> TRUE, key |-> sessions[session_id].encryption_key,
               sessions |-> [sessions EXCEPT ![session_id] = update_access(@, t2)]]
    ELSE [some |-> FALSE, key |-> <<>>, sessions |-> sessions]

\* Variant: an absent note file reads as an empty note.
read_note_lenient(files, note_id, key) ==
    IF note_id \notin DOMAIN files
    THEN [ok |-> TRUE, err |-> "",
          note |-> Note_new(note_id, Untitled, <<>>, TextType, <<>>, NoneStr, 0)]
    ELSE LET r == open_envelope(files[note_id], key)
         IN  [ok |-> r.ok, err |-> r.err, note |-> r.v]

\* load_note, past its get_session
read_note(files, note_id, key) ==
    IF note_id \notin DOMAIN files
    THEN [ok |-> FALSE, err |-> "NoteNotFound", note |-> <<>>]
    ELSE LET r == open_envelope(files[note_id], key)
         IN  [ok |-> r.ok, err |-> r.err, note |-> r.v]

\* std::fs::write of a note file
write_file(files, note_id, data) ==
    [x \in DOMAIN files \cup {note_id} |-> IF x = note_id THEN data ELSE files[x]]

-----------------------------------------------------------------------------
(* The note and folder operations of VaultManager, each as one step of a   *)
(* caller.  b gives the bounds of the scope.  A step that returns before   *)
(* or at a failed get_session does not read the clock again; the clock     *)
(* readings of one step (Instant::now, Utc::now) are one instant t2.  Of   *)
(* what a step returns ret keeps Ok or the error, under the name "store".  *)

\* The index stays within the bounds.
IndexWithin(b, idx) ==
    /\ Len(idx.folders) <= b.folders
    /\ \A i \in 1..Len(idx.folders) : Len(idx.folders[i].path) <= b.len
    /\ \A i \in 1..Len(idx.notes) :
          idx.notes[i].folder_path # NoneStr
          => Len(idx.notes[i].folder_path[1]) <= b.len

\* The ids a caller can pass: those generated so far, and one never generated.
KnownNotes == 0..(next_note - 1)

\* The key of the vault: that of every session an unlock creates.
VaultKey == derive_key("pw1", "s1")

\* The persisted index stays within the bounds.
StoreWithin(b, file, key) ==
    IF file = NoFile THEN TRUE
    ELSE IF ~open_envelope(file[1], key).ok THEN TRUE
    ELSE IndexWithin(b, open_envelope(file[1], key).v)

\* What a step leaves: r gives res, val (the value returned), sessions,
\* index_file, note_files, next_note and whether the clock was read.
StoreStep(b, t2, r) ==
    /\ r.next_note <= b.notes + 1
    /\ ret' = Ret("store", <<>>, r.res, None)
    /\ now' = (IF r.clock THEN t2 ELSE now)
    /\ sessions' = r.sessions
    /\ index_file' = r.index_file
    /\ note_files' = r.note_files
    /\ next_note' = r.next_note
    /\ UNCHANGED <<vault_file, rate_limits, next_id, pc, call, index, work, nonces, config, dirs>>

\* A step that fails with err before it touched the store.
Refused(err, sess, clock) ==
    [res |-> err, val |-> None, sessions |-> sess, index_file |-> index_file,
     note_files |-> note_files, next_note |-> next_note, clock |-> clock]

\* A step that ends with res and leaves the files given.
Done(res, val, sess, ifile, nfiles, nnote) ==
    [res |-> res, val |-> val, sessions |-> sess, index_file |-> ifile,
     note_files |-> nfiles, next_note |-> nnote, clock |-> TRUE]

\* Lines 659-670: the title a new note gets, or TitleTooLong
TitleTooLong == <<"!">>

\* Variant: the title is stored as given.
new_title_untrimmed(title) ==
    IF title = NoneStr THEN Untitled
    ELSE IF Len(trim(title[1])) = 0 THEN Untitled
    ELSE IF str_len(trim(title[1])) > MaxTitleLen THEN TitleTooLong
    ELSE title[1]

new_title(title) ==
    IF title = NoneStr THEN Untitled
    ELSE IF Len(trim(title[1])) = 0 THEN Untitled
    ELSE IF str_len(trim(title[1])) > MaxTitleLen THEN TitleTooLong
    ELSE trim(title[1])

unwrap_or(opt, default) == IF opt = NoneStr THEN default ELSE opt[1]

create_note_result(t2, n, session_id, title, content, tags, folder_path, note_type) ==
    IF new_title(title) = TitleTooLong THEN Refused("InvalidNoteTitle", sessions, FALSE)
    ELSE IF unwrap_or(note_type, TextType) \notin NoteTypes
         THEN Refused("InvalidNoteTitle", sessions, FALSE)
    ELSE LET s == session_lookup(session_id, t2)
         IN  IF ~s.some THEN Refused("InvalidPassword", s.sessions, FALSE)
             ELSE LET note == Note_new(next_note, new_title(title), unwrap_or(content, <<>>),
                                       unwrap_or(note_type, TextType), unwrap_or(tags, <<>>),
                                       folder_path, t2)
                      files == write_file(note_files, note.id, note_file_data(note, s.key, n))
                      u == update_notes_index(index_file, s.key, t2, n,
                                              [op |-> "add_note", note |-> note])
                  IN  IF ~u.ok THEN Done(u.err, None, s.sessions, u.file, files, next_note + 1)
                      ELSE Done("Ok", note, s.sessions, u.file, files, next_note + 1)

create_note(b, session_id, title, content, tags, folder_path, note_type) ==
    \E t2 \in {now}, n \in Nonces :
        LET r == create_note_result(t2, n, session_id, title, content, tags,
                                    folder_path, note_type)
        IN  /\ StoreStep(b, t2, r)
            /\ StoreWithin(b, r.index_file, VaultKey)

get_notes_list_result(t2, n, session_id) ==
    LET s == session_lookup(session_id, t2)
    IN  IF ~s.some THEN Refused("InvalidPassword", s.sessions, FALSE)
        ELSE LET l == load_notes_index(index_file, s.key, t2, n)
             IN  IF ~l.ok THEN Done(l.err, None, s.sessions, l.file, note_files, next_note)
                 ELSE Done("Ok", l.index.notes, s.sessions, l.file, note_files, next_note)

get_notes_list(b, session_id) ==
    \E t2 \in {now}, n \in Nonces :
        StoreStep(b, t2, get_notes_list_result(t2, n, session_id))

get_folders_list_result(t2, n, session_id) ==
    LET s == session_lookup(session_id, t2)
    IN  IF ~s.some THEN Refused("InvalidPassword", s.sessions, FALSE)
        ELSE LET l == load_notes_index(index_file, s.key, t2, n)
             IN  IF ~l.ok THEN Done(l.err, None, s.sessions, l.file, note_files, next_note)
                 ELSE Done("Ok", [i \in 1..Len(l.index.folders) |-> l.index.folders[i].path],
                           s.sessions, l.file, note_files, next_note)

get_folders_list(b, session_id) ==
    \E t2 \in {now}, n \in Nonces :
        StoreStep(b, t2, get_folders_list_result(t2, n, session_id))

load_note_result(t2, session_id, note_id) ==
    LET s == session_lookup(session_id, t2)
    IN  IF ~s.some THEN Refused("InvalidPassword", s.sessions, FALSE)
        ELSE LET r == read_note(note_files, note_id, s.key)
             IN  IF ~r.ok THEN Done(r.err, None, s.sessions, index_file, note_files, next_note)
                 ELSE Done("Ok", r.note, s.sessions, index_file, note_files, next_note)

load_note(b, session_id, note_id) ==
    \E t2 \in {now} :
        StoreStep(b, t2, load_note_result(t2, session_id, note_id))

\* Variant: a field that is not supplied is cleared.
apply_fields_clearing(note, title, content, tags, folder_path, t) ==
    [note EXCEPT !.title = IF title = NoneStr THEN @ ELSE trim(title[1]),
                 !.content = unwrap_or(content, <<>>),
                 !.tags = unwrap_or(tags, <<>>),
                 !.folder_path = folder_path,
                 !.updated_at = t]

\* Lines 873-898 of save_note: the fields supplied, and the timestamp
apply_fields(note, title, content, tags, folder_path, t) ==
    [note EXCEPT !.title = IF title = NoneStr THEN @ ELSE trim(title[1]),
                 !.content = unwrap_or(content, @),
                 !.tags = unwrap_or(tags, @),
                 !.folder_path = IF folder_path = NoneStr THEN @ ELSE folder_path,
                 !.updated_at = t]

\* The load_note inside save_note looks the session up again and finds the
\* entry the first lookup has just refreshed.
save_note_result(t2, n, session_id, note_id, title, content, tags, folder_path) ==
    LET s == session_lookup(session_id, t2)
    IN  IF ~s.some THEN Refused("InvalidPassword", s.sessions, FALSE)
        ELSE LET r == read_note(note_files, note_id, s.key)
             IN  IF ~r.ok THEN Done(r.err, None, s.sessions, index_file, note_files, next_note)
                 ELSE IF title # NoneStr /\ Len(trim(title[1])) = 0
                      THEN Done("InvalidNoteTitle", None, s.sessions, index_file, note_files, next_note)
                 ELSE IF title # NoneStr /\ str_len(trim(title[1])) > MaxTitleLen
                      THEN Done("InvalidNoteTitle", None, s.sessions, index_file, note_files, next_note)
                 ELSE LET note == apply_fields(r.note, title, content, tags, folder_path, t2)
                          files == write_file(note_files, note.id, note_file_data(note, s.key, n))
                          u == update_notes_index(index_file, s.key, t2, n,
                                                  [op |-> "update_note", note |-> note])
                      IN  IF ~u.ok THEN Done(u.err, None, s.sessions, u.file, files, next_note)
                          ELSE Done("Ok", note, s.sessions, u.file, files, next_note)

save_note(b, session_id, note_id, title, content, tags, folder_path) ==
    \E t2 \in {now}, n \in Nonces :
        LET r == save_note_result(t2, n, session_id, note_id, title, content, tags, folder_path)
        IN  /\ StoreStep(b, t2, r)
            /\ StoreWithin(b, r.index_file, VaultKey)

delete_note_result(t2, n, session_id, note_id) ==
    LET s == session_lookup(session_id, t2)
    IN  IF ~s.some THEN Refused("InvalidPassword", s.sessions, FALSE)
        ELSE LET files == [x \in DOMAIN note_files \ {note_id} |-> note_files[x]]
                 u == update_notes_index(index_file, s.key, t2, n,
                                         [op |-> "remove_note", note_id |-> note_id])
             IN  IF ~u.ok THEN Done(u.err, None, s.sessions, u.file, files, next_note)
                 ELSE Done("Ok", None, s.sessions, u.file, files, next_note)

delete_note(b, session_id, note_id) ==
    \E t2 \in {now}, n \in Nonces :
        StoreStep(b, t2, delete_note_result(t2, n, session_id, note_id))

\* The lookups at lines 974 and 979 find the entry the first has refreshed.
move_note_result(t2, n, session_id, note_id, new_folder_path) ==
    LET s == session_lookup(session_id, t2)
    IN  IF ~s.some THEN Refused("InvalidPassword", s.sessions, FALSE)
        ELSE LET u1 == update_notes_index(index_file, s.key, t2, n,
                                          [op |-> "move_note", note_id |-> note_id,
                                           folder_path |-> new_folder_path])
             IN  IF ~u1.ok THEN Done(u1.err, None, s.sessions, u1.file, note_files, next_note)
                 ELSE LET r == read_note(note_files, note_id, s.key)
                      IN  IF ~r.ok
                          THEN Done(r.err, None, s.sessions, u1.file, note_files, next_note)
                          ELSE LET note == [r.note EXCEPT !.folder_path = new_folder_path,
                                                          !.updated_at = t2]
                                   files == write_file(note_files, note.id,
                                                       note_file_data(note, s.key, n))
                                   u2 == update_notes_index(u1.file, s.key, t2, n,
                                             [op |-> "update_note", note |-> note])
                               IN  IF ~u2.ok
                                   THEN Done(u2.err, None, s.sessions, u2.file, files, next_note)
                                   ELSE Done("Ok", None, s.sessions, u2.file, files, next_note)

move_note_op(b, session_id, note_id, new_folder_path) ==
    \E t2 \in {now}, n \in Nonces :
        LET r == move_note_result(t2, n, session_id, note_id, new_folder_path)
        IN  /\ StoreStep(b, t2, r)
            /\ StoreWithin(b, r.index_file, VaultKey)

\* create_folder, delete_folder and move_folder: the Result of the index
\* method is dropped (let _ = ...) and the index saved as the method left it.
folder_op_result(t2, n, session_id, update_fn) ==
    LET s == session_lookup(session_id, t2)
    IN  IF ~s.some THEN Refused("InvalidPassword", s.sessions, FALSE)
        ELSE LET u == update_notes_index(index_file, s.key, t2, n, update_fn)
             IN  IF ~u.ok THEN Done(u.err, None, s.sessions, u.file, note_files, next_note)
                 ELSE Done("Ok", None, s.sessions, u.file, note_files, next_note)

create_folder(b, session_id, folder_path) ==
    \E t2 \in {now}, n \in Nonces :
        LET r == folder_op_result(t2, n, session_id,
                                  [op |-> "add_folder", folder_path |-> folder_path])
        IN  /\ StoreStep(b, t2, r)
            /\ StoreWithin(b, r.index_file, VaultKey)

delete_folder(b, session_id, folder_path) ==
    \E t2 \in {now}, n \in Nonces :
        LET r == folder_op_result(t2, n, session_id,
                                  [op |-> "remove_folder", folder_path |-> folder_path])
        IN  StoreStep(b, t2, r)

move_folder_op(b, session_id, old_path, new_path) ==
    \E t2 \in {now}, n \in Nonces :
        LET r == folder_op_result(t2, n, session_id,
                                  [op |-> "move_folder", old_path |-> old_path,
                                   new_path |-> new_path])
        IN  /\ StoreStep(b, t2, r)
            /\ StoreWithin(b, r.index_file, VaultKey)

-----------------------------------------------------------------------------

\* The unlock and rate-limit scope: concurrent unlock calls over a few
\* seconds, on any metadata file; a caller looks its session up right after
\* the unlock returned (SpecSession has the lookups at any time).
Next ==
    \/ Tick(MaxFine)
    \/ \E t \in Threads, v \in Vaults, password \in Passwords : UnlockCheck(MaxFine, t, v, password)
    \/ \E t \in Threads : UnlockVerify(MaxSessions, t)
    \/ \E t \in Threads : UnlockReset(t)
    \/ \E t \in Threads : UnlockInsert(t)
    \/ \E t \in Threads : UnlockRecord(MaxFine, t)
    \/ \E v \in Vaults : get_rate_limit_status(MaxFine, v)
    \/ (ret.op = "unlock_vault" /\ ret.res = "Ok" /\ get_session(MaxFine, ret.val))

Spec == Init /\ [][Next]_vars

\* The session-lifecycle scope: one caller who knows the password, encrypted
\* vaults, idle periods as long as the session timeout.
InitSession ==
    /\ Init
    /\ \A v \in Vaults :
          vault_file[v] = FileOk(VaultInfoNewEncrypted(create_vault_crypto("pw1", "s1", "n1")))

NextSession ==
    \/ Tick(SessMaxFine)
    \/ Jump(SessMaxJumps)
    \/ \E v \in Vaults : UnlockCheck(SessMaxFine, 1, v, "pw1")
    \/ UnlockVerify(SessMaxSessions, 1)
    \/ UnlockReset(1)
    \/ UnlockInsert(1)
    \/ \E id \in KnownIds : get_session(SessMaxFine, id)
    \/ \E id \in KnownIds : close_session(id)

SpecSession == InitSession /\ [][NextSession]_vars

\* The backoff schedule: a wrong-password call that has passed the check
\* and failed verification, on a vault with any number of earlier failures
\* whose lockout has elapsed.
GoodFile == FileOk(VaultInfoNewEncrypted(create_vault_crypto("pw1", "s1", "n1")))

InitBackoff ==
    /\ now \in 0..MaxFine
    /\ vault_file = [v \in Vaults |-> GoodFile]
    /\ \E a \in 0..MaxAttempts :
          rate_limits = [v \in Vaults |->
              [attempts |-> a, locked_until |-> IF a = 0 THEN None ELSE 0]]
    /\ sessions = <<>>
    /\ next_id = 1
    /\ pc = [t \in Threads |-> IF t = 1 THEN "record" ELSE "idle"]
    /\ call = [t \in Threads |->
                 IF t = 1
                 THEN [vault |-> "v1", password |-> "pw2", verdict |-> "false",
                       info |-> GoodFile.info]
                 ELSE NoCall]
    /\ ret = NoRet
    /\ index = NotesIndex_new(0)
    /\ index_file = NoFile
    /\ note_files = <<>>
    /\ next_note = 1
    /\ work = [t \in Threads |-> NoWork]
    /\ nonces = {}
    /\ config = AppConfig_default
    /\ dirs = NoDirs

NextBackoff ==
    \/ Tick(MaxFine)
    \/ UnlockRecord(MaxFine, 1)

SpecBackoff == InitBackoff /\ [][NextBackoff]_vars

-----------------------------------------------------------------------------
(* The operations of NotesIndex, on an index in memory.  b gives the       *)
(* bounds of the scope: the number of notes ever added, the number of      *)
(* folders and the length of a stored path.  ret keeps the arguments of    *)
(* add_folder and remove_folder only.                                      *)

IndexStep(b, op, arg, res, idx) ==
    /\ IndexWithin(b, idx)
    /\ index' = idx
    /\ ret' = Ret(op, arg, res, None)
    /\ UNCHANGED <<now, vault_file, rate_limits, sessions, next_id, pc, call>>
    /\ UNCHANGED <<index_file, note_files, work, nonces, config, dirs>>

\* add_note of a note made by Note::new_with_type and with_folder
IndexAddNote(b, folder_path) ==
    /\ next_note <= b.notes
    /\ next_note' = next_note + 1
    /\ IndexStep(b, "add_note", <<>>, "",
                 add_note(index, Note_new(next_note, Untitled, <<>>, TextType, <<>>,
                                          folder_path, now), now))

IndexUpdateNote(b, note_id, folder_path) ==
    /\ UNCHANGED next_note
    /\ IndexStep(b, "update_note", <<>>, "",
                 update_note(index, Note_new(note_id, Untitled, <<>>, TextType, <<>>,
                                             folder_path, now), now))

IndexRemoveNote(b, note_id) ==
    /\ UNCHANGED next_note
    /\ IndexStep(b, "remove_note", <<>>, "", remove_note(index, note_id, now))

IndexMoveNote(b, note_id, folder_path) ==
    /\ UNCHANGED next_note
    /\ LET r == move_note(index, note_id, folder_path, now)
       IN  IndexStep(b, "move_note", <<>>, IF r.ok THEN "Ok" ELSE "Err", r.index)

IndexAddFolder(b, path) ==
    /\ UNCHANGED next_note
    /\ LET r == add_folder(index, path, now)
       IN  IndexStep(b, "add_folder", <<path>>, IF r.ok THEN "Ok" ELSE "Err", r.index)

IndexRemoveFolder(b, path) ==
    /\ UNCHANGED next_note
    /\ LET r == remove_folder(index, path, now)
       IN  IndexStep(b, "remove_folder", <<path>>, IF r.ok THEN "Ok" ELSE "Err", r.index)

IndexMoveFolder(b, old_path, new_path) ==
    /\ UNCHANGED next_note
    /\ LET r == move_folder(index, old_path, new_path, now)
       IN  IndexStep(b, "move_folder", <<>>, IF r.ok THEN "Ok" ELSE "Err", r.index)

\* The folder scope: creating, deleting and renaming folders of an index
\* that holds notes.  The paths a caller passes: the empty path, a name,
\* a name that extends it, and a path nested under it.
FolderPaths ==
    { <<>>, <<"a">>, <<"a", "b">>, <<"a", "/", "b">> }

FolderPathOptions == {NoneStr} \cup {Some(p) : p \in FolderPaths \ {<<>>}}

FoldBounds == [notes |-> FoldMaxNotes, folders |-> FoldMaxFolders, len |-> FoldMaxPathLen]

NextFolders ==
    \/ \E fp \in FolderPathOptions : IndexAddNote(FoldBounds, fp)
    \/ \E id \in KnownNotes : IndexRemoveNote(FoldBounds, id)
    \/ \E p \in FolderPaths : IndexAddFolder(FoldBounds, p)
    \/ \E p \in FolderPaths : IndexRemoveFolder(FoldBounds, p)
    \/ \E p \in FolderPaths, q \in FolderPaths : IndexMoveFolder(FoldBounds, p, q)

SpecFolders == InitSession /\ [][NextFolders]_vars

\* The index scope: every operation of NotesIndex, with a second name and a
\* nested path that repeats its first segment.
IndexPaths ==
    { <<"a">>, <<"b">>, <<"a", "b">>, <<"a", "/", "b">>, <<"a", "/", "a", "/", "b">> }

IndexPathOptions == {NoneStr} \cup {Some(p) : p \in IndexPaths}

IdxBounds == [notes |-> IdxMaxNotes, folders |-> IdxMaxFolders, len |-> IdxMaxPathLen]

NextIndex ==
    \/ \E fp \in IndexPathOptions : IndexAddNote(IdxBounds, fp)
    \/ \E id \in KnownNotes, fp \in IndexPathOptions : IndexUpdateNote(IdxBounds, id, fp)
    \/ \E id \in KnownNotes : IndexRemoveNote(IdxBounds, id)
    \/ \E id \in KnownNotes, fp \in IndexPathOptions : IndexMoveNote(IdxBounds, id, fp)
    \/ \E p \in IndexPaths : IndexAddFolder(IdxBounds, p)
    \/ \E p \in IndexPaths : IndexRemoveFolder(IdxBounds, p)
    \/ \E p \in IndexPaths, q \in IndexPaths : IndexMoveFolder(IdxBounds, p, q)

SpecIndex == InitSession /\ [][NextIndex]_vars

\* The tree scope: folders only, under a name, a path nested under it, a
\* path nested under a name that is no folder, and paths that begin with
\* "/" or hold "//".
TreePaths ==
    { <<>>, <<"a">>, <<"a", "/", "b">>, <<"c", "/", "d">>, <<"/", "a">>,
      <<"a", "/", "/", "b">> }

TreeBounds == [notes |-> 0, folders |-> TreeMaxFolders, len |-> TreeMaxPathLen]

NextTree ==
    \/ \E p \in TreePaths : IndexAddFolder(TreeBounds, p)
    \/ \E p \in TreePaths : IndexRemoveFolder(TreeBounds, p)
    \/ \E p \in TreePaths, q \in TreePaths : IndexMoveFolder(TreeBounds, p, q)

SpecTree == InitSession /\ [][NextTree]_vars

-----------------------------------------------------------------------------
(* Vault creation: vault/mod.rs *)

\* Variant: an existing metadata file is replaced.
initialize_vault_overwriting(v) ==
    /\ vault_file' = [vault_file EXCEPT ![v] = FileOk(VaultInfoNew)]
    /\ ret' = Ret("initialize_vault", <<v>>, IF vault_exists(v) THEN "VaultExists" ELSE "Ok", None)
    /\ UNCHANGED <<now, rate_limits, sessions, next_id, pc, call>>
    /\ UNCHANGED store_vars

\* Lines 448-471
initialize_vault(v) ==
    /\ IF vault_exists(v)
       THEN /\ ret' = Ret("initialize_vault", <<v>>, "VaultExists", None)
            /\ UNCHANGED vault_file
       ELSE /\ vault_file' = [vault_file EXCEPT ![v] = FileOk(VaultInfoNew)]
            /\ ret' = Ret("initialize_vault", <<v>>, "Ok", None)
    /\ UNCHANGED <<now, rate_limits, sessions, next_id, pc, call>>
    /\ UNCHANGED store_vars

\* Variant: an existing metadata file is overwritten.
initialize_encrypted_vault_overwriting(v, password, salt, n) ==
    /\ vault_file' = [vault_file EXCEPT
                         ![v] = FileOk(VaultInfoNewEncrypted(create_vault_crypto(password, salt, n)))]
    /\ nonces' = nonces \cup {n}
    /\ ret' = Ret("initialize_encrypted_vault", <<v, password>>,
                  IF vault_exists(v) THEN "VaultExists" ELSE "Ok", None)
    /\ UNCHANGED <<now, rate_limits, sessions, next_id, pc, call>>
    /\ UNCHANGED <<index, index_file, note_files, next_note, work, config, dirs>>

\* Lines 474-512, with the salt and the nonce create_vault_crypto generated
initialize_encrypted_vault(v, password, salt, n) ==
    /\ IF vault_exists(v)
       THEN /\ ret' = Ret("initialize_encrypted_vault", <<v, password>>, "VaultExists", None)
            /\ UNCHANGED <<vault_file, nonces>>
       ELSE /\ vault_file' = [vault_file EXCEPT
                                 ![v] = FileOk(VaultInfoNewEncrypted(
                                            create_vault_crypto(password, salt, n)))]
            /\ nonces' = nonces \cup {n}
            /\ ret' = Ret("initialize_encrypted_vault", <<v, password>>, "Ok", None)
    /\ UNCHANGED <<now, rate_limits, sessions, next_id, pc, call>>
    /\ UNCHANGED <<index, index_file, note_files, next_note, work, config, dirs>>

-----------------------------------------------------------------------------
(* The scopes of the note and folder operations start where a first        *)
(* unlock_vault of a new vault has returned the session id 1.              *)

\* The state a successful first unlock_vault leaves.
InitUnlocked ==
    /\ now = 0
    /\ vault_file = [v \in Vaults |-> GoodFile]
    /\ rate_limits = [v \in Vaults |-> [attempts |-> 0, locked_until |-> None]]
    /\ sessions = (1 :> VaultSession_new(GoodFile.info, VaultKey, 0))
    /\ next_id = 2
    /\ pc = [t \in Threads |-> "idle"]
    /\ call = [t \in Threads |-> NoCall]
    /\ ret = Ret("unlock_vault", <<"v1", "pw1">>, "Ok", 1)
    /\ index = NotesIndex_new(0)
    /\ index_file = NoFile
    /\ note_files = <<>>
    /\ next_note = 1
    /\ work = [t \in Threads |-> NoWork]
    /\ nonces = {}
    /\ config = AppConfig_default
    /\ dirs = NoDirs

\* The store scope: one caller that calls the note and folder operations
\* with the id of its session and with an unknown id, lets the session
\* expire, and closes it.
LongTitle == [i \in 1..(MaxTitleLen + 1) |-> "x"]

\* A title of 101 characters that takes 202 bytes.
WideTitle == [i \in 1..(MaxTitleLen \div 2 + 1) |-> TwoByteChar]

StoreTitles == {NoneStr, Some(LongTitle), Some(WideTitle)}
StoreContents == {NoneStr}
StoreTags == {NoneStr}
StoreNoteTypes == {NoneStr, Some("bogus")}
StoreFolderOptions == {NoneStr, Some(<<"a">>)}
StoreFolders == { <<>>, <<"a">> }

StoreBounds ==
    [notes |-> StoreMaxNotes, folders |-> Cardinality(StoreFolders), len |-> 1]

NextStore ==
    \/ Sleep(StoreMaxSleeps)
    \/ \E id \in KnownIds : close_session(id)
    \/ \E id \in KnownIds, title \in StoreTitles, content \in StoreContents,
          tags \in StoreTags, fp \in StoreFolderOptions, ty \in StoreNoteTypes :
          create_note(StoreBounds, id, title, content, tags, fp, ty)
    \/ \E id \in KnownIds : get_notes_list(StoreBounds, id)
    \/ \E id \in KnownIds : get_folders_list(StoreBounds, id)
    \/ \E id \in KnownIds, n \in KnownNotes : load_note(StoreBounds, id, n)
    \/ \E id \in KnownIds, n \in KnownNotes, title \in StoreTitles,
          content \in StoreContents, tags \in StoreTags, fp \in StoreFolderOptions :
          save_note(StoreBounds, id, n, title, content, tags, fp)
    \/ \E id \in KnownIds, n \in KnownNotes : delete_note(StoreBounds, id, n)
    \/ \E id \in KnownIds, n \in KnownNotes, fp \in StoreFolderOptions :
          move_note_op(StoreBounds, id, n, fp)
    \/ \E id \in KnownIds, p \in StoreFolders : create_folder(StoreBounds, id, p)
    \/ \E id \in KnownIds, p \in StoreFolders : delete_folder(StoreBounds, id, p)
    \/ \E id \in KnownIds, p \in StoreFolders, q \in StoreFolders :
          move_folder_op(StoreBounds, id, p, q)

SpecStore == InitUnlocked /\ [][NextStore]_vars

\* The vault scope: one caller that creates, saves and moves notes, loads
\* them, and creates, deletes and moves folders with its session, on the
\* paths and within the bounds of the folder scope.
VaultTitles == {NoneStr, Some(<<"t">>)}

NextVault ==
    \/ \E id \in DOMAIN sessions, title \in VaultTitles, fp \in FolderPathOptions :
          create_note(FoldBounds, id, title, NoneStr, NoneStr, fp, NoneStr)
    \/ \E id \in DOMAIN sessions, n \in KnownNotes : load_note(FoldBounds, id, n)
    \/ \E id \in DOMAIN sessions, n \in KnownNotes, title \in VaultTitles,
          fp \in FolderPathOptions :
          save_note(FoldBounds, id, n, title, NoneStr, NoneStr, fp)
    \/ \E id \in DOMAIN sessions, n \in KnownNotes, fp \in FolderPathOptions :
          move_note_op(FoldBounds, id, n, fp)
    \/ \E id \in DOMAIN sessions, p \in FolderPaths : create_folder(FoldBounds, id, p)
    \/ \E id \in DOMAIN sessions, p \in FolderPaths : delete_folder(FoldBounds, id, p)
    \/ \E id \in DOMAIN sessions, p \in FolderPaths, q \in FolderPaths :
          move_folder_op(FoldBounds, id, p, q)

SpecVault == InitUnlocked /\ [][NextVault]_vars

\* The note scope: one caller that has unlocked the vault and creates, loads,
\* saves, moves and deletes notes while the clock advances.
NoteFolderOptions == {NoneStr, Some(<<"a">>)}
NoteTags == {NoneStr, Some(<<"x">>)}
NoteTitles == {NoneStr, Some(<<"t">>), Some(<<" ">>)}

NotesBounds == [notes |-> NotesMaxNotes, folders |-> 0, len |-> 1]

NextNotes ==
    \/ Tick(NotesMaxFine)
    \/ \E id \in DOMAIN sessions, title \in NoteTitles, fp \in NoteFolderOptions :
          create_note(NotesBounds, id, title, NoneStr, NoneStr, fp, NoneStr)
    \/ \E id \in DOMAIN sessions, n \in KnownNotes : load_note(NotesBounds, id, n)
    \/ \E id \in DOMAIN sessions, n \in KnownNotes, title \in NoteTitles,
          tags \in NoteTags, fp \in NoteFolderOptions :
          save_note(NotesBounds, id, n, title, NoneStr, tags, fp)
    \/ \E id \in DOMAIN sessions, n \in KnownNotes, fp \in NoteFolderOptions :
          move_note_op(NotesBounds, id, n, fp)
    \/ \E id \in DOMAIN sessions, n \in KnownNotes : delete_note(NotesBounds, id, n)

SpecNotes == InitUnlocked /\ [][NextNotes]_vars

\* The edit scope: one caller that has created two notes with every field
\* given and saves them with any choice of fields, while the clock advances.
EditNoteIds == {1, 2}

\* The note create_note(Some("t"), Some("c"), Some(["x"]), Some("a"), None)
\* makes at time 0.
EditNote(id) == Note_new(id, <<"t">>, <<"c">>, TextType, <<"x">>, Some(<<"a">>), 0)

\* The state the two create_note calls leave after the unlock.
InitEdit ==
    /\ now = 0
    /\ vault_file = [v \in Vaults |-> GoodFile]
    /\ rate_limits = [v \in Vaults |-> [attempts |-> 0, locked_until |-> None]]
    /\ sessions = (1 :> VaultSession_new(GoodFile.info, VaultKey, 0))
    /\ next_id = 2
    /\ pc = [t \in Threads |-> "idle"]
    /\ call = [t \in Threads |-> NoCall]
    /\ ret = Ret("store", <<>>, "Ok", None)
    /\ index = NotesIndex_new(0)
    /\ index_file = save_notes_index(
                        add_note(add_note(NotesIndex_new(0), EditNote(1), 0), EditNote(2), 0),
                        VaultKey, "n1")
    /\ note_files = [id \in EditNoteIds |-> note_file_data(EditNote(id), VaultKey, "n1")]
    /\ next_note = Cardinality(EditNoteIds) + 1
    /\ work = [t \in Threads |-> NoWork]
    /\ nonces = {}
    /\ config = AppConfig_default
    /\ dirs = NoDirs

EditTitles == {NoneStr, Some(<<" ", "u", " ">>)}
EditContents == {NoneStr, Some(<<"d">>)}
EditTags == {NoneStr, Some(<<"y">>)}
EditFolderOptions == {NoneStr, Some(<<"b">>)}

EditBounds == [notes |-> Cardinality(EditNoteIds), folders |-> 0, len |-> 1]

NextEdit ==
    \/ Tick(EditMaxFine)
    \/ \E id \in DOMAIN sessions, n \in KnownNotes, title \in EditTitles,
          content \in EditContents, tags \in EditTags, fp \in EditFolderOptions :
          save_note(EditBounds, id, n, title, content, tags, fp)

SpecEdit == InitEdit /\ [][NextEdit]_vars

\* The delete scope: one caller that has created two notes, creates a folder,
\* loads, saves under a new title (a valid one, a blank one, one too long)
\* and deletes notes, those that are stored and those that are not, while
\* the clock advances.
DeleteBounds == [notes |-> Cardinality(EditNoteIds), folders |-> 1, len |-> 1]

DeleteTitles == {Some(<<"u">>), Some(<<" ">>), Some(LongTitle), Some(WideTitle)}

NextDelete ==
    \/ Tick(EditMaxFine)
    \/ \E id \in DOMAIN sessions : create_folder(DeleteBounds, id, <<"b">>)
    \/ \E id \in DOMAIN sessions, n \in KnownNotes : load_note(DeleteBounds, id, n)
    \/ \E id \in DOMAIN sessions, n \in KnownNotes, title \in DeleteTitles :
          save_note(DeleteBounds, id, n, title, NoneStr, NoneStr, NoneStr)
    \/ \E id \in DOMAIN sessions, n \in KnownNotes : delete_note(DeleteBounds, id, n)
    \/ \E v \in Vaults : initialize_vault(v)
    \/ \E v \in Vaults, password \in Passwords, salt \in Salts, n \in Nonces :
          initialize_encrypted_vault(v, password, salt, n)

SpecDelete == InitEdit /\ [][NextDelete]_vars

\* The create scope: one caller that creates notes with no title, a blank
\* one, one with spaces around it, one too long, and with each note type,
\* while the clock advances.
CreateTitles ==
    {NoneStr, Some(<<" ">>), Some(<<" ", "t", " ">>), Some(LongTitle), Some(WideTitle)}

CreateNoteTypes == {NoneStr, Some("whiteboard"), Some("bogus")}

CreateBounds == [notes |-> CreateMaxNotes, folders |-> 0, len |-> 1]

NextCreate ==
    \/ Tick(CreateMaxFine)
    \/ \E id \in DOMAIN sessions, title \in CreateTitles, ty \in CreateNoteTypes :
          create_note(CreateBounds, id, title, NoneStr, NoneStr, NoneStr, ty)
    \/ \E id \in DOMAIN sessions, n \in KnownNotes : load_note(CreateBounds, id, n)

SpecCreate == InitUnlocked /\ [][NextCreate]_vars

-----------------------------------------------------------------------------
(* The crypto scope: vault creation, password verification, unlocking and  *)
(* encrypt_data / decrypt_data.  The random source (OsRng) is taken to     *)
(* hand out a nonce that no earlier call received; nonces holds the ones   *)
(* handed out so far.                                                      *)

NonceNames == <<"n1", "n2", "n3", "n4", "n5", "n6">>

CryptoNonces == {NonceNames[i] : i \in 1..(CryptoMaxNonces + 1)}

\* Variant: the nonce is a constant.
generate_nonce_fixed(used) == {NonceNames[1]}

\* ChaCha20Poly1305::generate_nonce(&mut OsRng): the values it can return
generate_nonce(used) == CryptoNonces \ used

\* Lines 616-629: "true", "false", or the error; a CryptoError is named by
\* its variant
verify_vault_password_result(v, password) ==
    LET li == load_vault_info(v)
    IN  IF ~li.ok THEN li.err
        ELSE IF ~li.info.is_encrypted THEN "NotEncrypted"
        ELSE IF ~li.info.has_crypto THEN "InvalidFormat"
        ELSE verify_password(password, li.info.crypto)

verify_vault_password(v, password) ==
    /\ ret' = Ret("verify_vault_password", <<v, password>>,
                  verify_vault_password_result(v, password), None)
    /\ UNCHANGED <<now, vault_file, rate_limits, sessions, next_id, pc, call>>
    /\ UNCHANGED store_vars

\* crypto/mod.rs lines 337-347: a call of encrypt_data
EncryptData(data, key) ==
    /\ \E n \in generate_nonce(nonces) :
          /\ nonces' = nonces \cup {n}
          /\ ret' = Ret("encrypt_data", <<data, key>>, "Ok", encrypt_data(data, key, n))
    /\ UNCHANGED <<now, vault_file, rate_limits, sessions, next_id, pc, call>>
    /\ UNCHANGED <<index, index_file, note_files, next_note, work, config, dirs>>

\* crypto/mod.rs lines 350-364: a call of decrypt_data
DecryptData(ciphertext, nonce, key) ==
    /\ LET r == decrypt_data(ciphertext, nonce, key)
       IN  ret' = Ret("decrypt_data", <<ciphertext, nonce, key>>,
                      IF r.ok THEN "Ok" ELSE r.err, r.v)
    /\ UNCHANGED <<now, vault_file, rate_limits, sessions, next_id, pc, call>>
    /\ UNCHANGED store_vars

\* A nonce of 11 bytes
ShortNonce(n) == [id |-> n, len |-> NonceLen - 1]

\* What a damaged metadata file can hold in place of vc: a salt, a test
\* vector or a nonce that does not parse, and ones that parse to another value.
CorruptCryptos(vc) ==
    { [vc EXCEPT !.salt = <<"garbage">>],
      [vc EXCEPT !.salt = <<"salt", "s0">>],
      [vc EXCEPT !.key_test_vector = <<"garbage">>],
      [vc EXCEPT !.key_test_vector = base64_encode(<<"garbage">>)],
      [vc EXCEPT !.key_test_nonce = <<"garbage">>],
      [vc EXCEPT !.key_test_nonce = base64_encode(ShortNonce(NonceNames[1]))],
      [vc EXCEPT !.key_test_nonce = base64_encode(Nonce("n0"))] }

CryptoSalts == {"s1", "s2"}
CryptoKeys == {derive_key(p, "s1") : p \in Passwords}
Plaintexts == {"", "m"}

CryptoFiles ==
    { FileMissing, FileOk(VaultInfoNew),
      FileOk([is_encrypted |-> TRUE, has_crypto |-> FALSE, crypto |-> NoCrypto]),
      FileOk(VaultInfoNewEncrypted(BadHashCrypto)) }
    \cup { FileOk(VaultInfoNewEncrypted(vc)) :
              vc \in CorruptCryptos(create_vault_crypto("pw1", "s1", NonceNames[1])) }

InitCrypto ==
    /\ now = 0
    /\ vault_file \in [Vaults -> CryptoFiles]
    /\ rate_limits = <<>>
    /\ sessions = <<>>
    /\ next_id = 1
    /\ pc = [t \in Threads |-> "idle"]
    /\ call = [t \in Threads |-> NoCall]
    /\ ret = NoRet
    /\ index = NotesIndex_new(0)
    /\ index_file = NoFile
    /\ note_files = <<>>
    /\ next_note = 1
    /\ work = [t \in Threads |-> NoWork]
    /\ nonces = {NonceNames[1]}
    /\ config = AppConfig_default
    /\ dirs = NoDirs

NextCrypto ==
    \/ \E v \in Vaults : initialize_vault(v)
    \/ \E v \in Vaults, password \in Passwords, salt \in CryptoSalts, n \in generate_nonce(nonces) :
          initialize_encrypted_vault(v, password, salt, n)
    \/ \E v \in Vaults, password \in Passwords : verify_vault_password(v, password)
    \/ \E v \in Vaults, password \in Passwords : UnlockCheck(0, 1, v, password)
    \/ UnlockVerify(CryptoMaxSessions, 1)
    \/ UnlockReset(1)
    \/ UnlockInsert(1)
    \/ UnlockRecord(0, 1)
    \/ \E data \in Plaintexts, key \in CryptoKeys : EncryptData(data, key)
    \/ /\ ret.op = "encrypt_data"
       /\ \E ciphertext \in {ret.val.ciphertext, <<"garbage">>},
             nonce \in {ret.val.nonce, ShortNonce(ret.val.nonce.id), Nonce("n0")},
             key \in CryptoKeys :
             DecryptData(ciphertext, nonce, key)

SpecCrypto == InitCrypto /\ [][NextCrypto]_vars

-----------------------------------------------------------------------------
(* The metadata scope: a path without a vault, on which a vault is created *)
(* (plain or encrypted) and then used: unlocked, verified, queried, its    *)
(* sessions looked up and closed, notes and folders written.               *)

InitMeta ==
    /\ now = 0
    /\ vault_file = [v \in Vaults |-> FileMissing]
    /\ rate_limits = <<>>
    /\ sessions = <<>>
    /\ next_id = 1
    /\ pc = [t \in Threads |-> "idle"]
    /\ call = [t \in Threads |-> NoCall]
    /\ ret = NoRet
    /\ index = NotesIndex_new(0)
    /\ index_file = NoFile
    /\ note_files = <<>>
    /\ next_note = 1
    /\ work = [t \in Threads |-> NoWork]
    /\ nonces = {}
    /\ config = AppConfig_default
    /\ dirs = NoDirs

MetaBounds == [notes |-> MetaMaxNotes, folders |-> 1, len |-> 1]

NextMeta ==
    \/ \E v \in Vaults : initialize_vault(v)
    \/ \E v \in Vaults, password \in Passwords, salt \in Salts, n \in Nonces :
          initialize_encrypted_vault(v, password, salt, n)
    \/ \E v \in Vaults, password \in Passwords : verify_vault_password(v, password)
    \/ \E v \in Vaults, password \in Passwords : UnlockCheck(0, 1, v, password)
    \/ UnlockVerify(MetaMaxSessions, 1)
    \/ UnlockReset(1)
    \/ UnlockInsert(1)
    \/ UnlockRecord(0, 1)
    \/ \E v \in Vaults : get_rate_limit_status(0, v)
    \/ \E id \in KnownIds : get_session(0, id)
    \/ \E id \in KnownIds : close_session(id)
    \/ \E id \in DOMAIN sessions :
          create_note(MetaBounds, id, NoneStr, NoneStr, NoneStr, NoneStr, NoneStr)
    \/ \E id \in DOMAIN sessions, n \in KnownNotes :
          save_note(MetaBounds, id, n, Some(<<"u">>), NoneStr, NoneStr, NoneStr)
    \/ \E id \in DOMAIN sessions, n \in KnownNotes : delete_note(MetaBounds, id, n)
    \/ \E id \in DOMAIN sessions : create_folder(MetaBounds, id, <<"a">>)

SpecMeta == InitMeta /\ [][NextMeta]_vars

-----------------------------------------------------------------------------
(* The preview scope: one caller that creates notes whose content is a     *)
(* run of ASCII characters, a run of two-byte characters and a run of      *)
(* ASCII characters, of lengths around the preview limit.                  *)

Content(a, w, z) ==
    [i \in 1..a |-> "x"] \o [i \in 1..w |-> TwoByteChar] \o [i \in 1..z |-> "y"]

PreviewContents ==
    {Some(Content(a, w, z)) : a \in (PreviewCut - 4)..PreviewCut, w \in 0..2, z \in 0..6}

PreviewBounds == [notes |-> PreviewMaxNotes, folders |-> 0, len |-> 1]

NextPreview ==
    \/ \E id \in DOMAIN sessions, content \in PreviewContents :
          create_note(PreviewBounds, id, NoneStr, content, NoneStr, NoneStr, NoneStr)
    \/ \E id \in DOMAIN sessions : get_notes_list(PreviewBounds, id)

SpecPreview == InitUnlocked /\ [][NextPreview]_vars

-----------------------------------------------------------------------------
(* The rate-limit scope: two vault paths, callers that try to unlock them  *)
(* with the right and with a wrong password and query their status, while  *)
(* the clock advances past their lockouts.                                 *)

TwoVaults == {"v1", "v2"}

InitLimits ==
    /\ now = 0
    /\ vault_file = [v \in TwoVaults |-> GoodFile]
    /\ rate_limits = <<>>
    /\ sessions = <<>>
    /\ next_id = 1
    /\ pc = [t \in Threads |-> "idle"]
    /\ call = [t \in Threads |-> NoCall]
    /\ ret = NoRet
    /\ index = NotesIndex_new(0)
    /\ index_file = NoFile
    /\ note_files = <<>>
    /\ next_note = 1
    /\ work = [t \in Threads |-> NoWork]
    /\ nonces = {}
    /\ config = AppConfig_default
    /\ dirs = NoDirs

NextLimits ==
    \/ Tick(LimMaxFine)
    \/ Jump(LimMaxJumps)
    \/ \E v \in TwoVaults, password \in Passwords : UnlockCheck(LimMaxFine, 1, v, password)
    \/ UnlockVerify(1, 1)
    \/ UnlockReset(1)
    \/ UnlockInsert(1)
    \/ UnlockRecord(LimMaxFine, 1)
    \/ \E v \in TwoVaults : get_rate_limit_status(LimMaxFine, v)

SpecLimits == InitLimits /\ [][NextLimits]_vars

-----------------------------------------------------------------------------
(* The config scope: an AppConfig that starts from the default, with the   *)
(* number of recent vaults to keep set as a caller can set it, on which    *)
(* vaults are registered, selected, removed and cleaned up while the       *)
(* directories they point to come and go.                                  *)

ConfigStep(op, arg, r) ==
    /\ config' = r.config
    /\ ret' = Ret(op, arg, r.res, r.val)
    /\ UNCHANGED <<now, vault_file, rate_limits, sessions, pc, call>>
    /\ UNCHANGED <<index, index_file, note_files, next_note, work, nonces, dirs>>

\* The id is the next one uuid::Uuid::new_v4() returns.
add_known_vault(maxVaults, path) ==
    LET r == add_known_vault_result(config, path, next_id)
    IN  /\ r.res = "Ok" => next_id <= maxVaults
        /\ next_id' = IF r.res = "Ok" THEN next_id + 1 ELSE next_id
        /\ ConfigStep("add_known_vault", <<path>>, r)

remove_known_vault(vault_id) ==
    /\ ConfigStep("remove_known_vault", <<vault_id>>, remove_known_vault_result(config, vault_id))
    /\ UNCHANGED next_id

set_current_vault(vault_id) ==
    /\ ConfigStep("set_current_vault", <<vault_id>>,
                  set_current_vault_result(config, vault_id, now))
    /\ UNCHANGED next_id

cleanup_invalid_vaults ==
    /\ ConfigStep("cleanup_invalid_vaults", <<>>, cleanup_invalid_vaults_result(config))
    /\ UNCHANGED next_id

\* Outside the program, the path becomes a directory, a file, or nothing.
SetPath(path, kind) ==
    /\ dirs[path] # kind
    /\ dirs' = [dirs EXCEPT ![path] = kind]
    /\ ret' = NoRet
    /\ UNCHANGED <<now, vault_file, rate_limits, sessions, next_id, pc, call>>
    /\ UNCHANGED <<index, index_file, note_files, next_note, work, nonces, config>>

CfgMaxRecents == {2, DefaultMaxRecentVaults}

\* What each path becomes in this scope: the first anything, the second a
\* directory or nothing, the third stays a directory.
CfgKinds(path) ==
    IF path = "p1" THEN PathKinds
    ELSE IF path = "p2" THEN {"dir", "missing"}
    ELSE {"dir"}

InitConfig ==
    /\ now = 0
    /\ vault_file = [v \in Vaults |-> FileMissing]
    /\ rate_limits = <<>>
    /\ sessions = <<>>
    /\ next_id = 1
    /\ pc = [t \in Threads |-> "idle"]
    /\ call = [t \in Threads |-> NoCall]
    /\ ret = NoRet
    /\ index = NotesIndex_new(0)
    /\ index_file = NoFile
    /\ note_files = <<>>
    /\ next_note = 1
    /\ work = [t \in Threads |-> NoWork]
    /\ nonces = {}
    /\ \E m \in CfgMaxRecents : config = [AppConfig_default EXCEPT !.max_recent_vaults = m]
    /\ dirs = [p \in CfgPaths |-> "dir"]

NextConfig ==
    \/ \E path \in CfgPaths : add_known_vault(CfgMaxVaults, path)
    \/ \E vault_id \in KnownIds : remove_known_vault(vault_id)
    \/ \E vault_id \in KnownIds \cup {None} : set_current_vault(vault_id)
    \/ cleanup_invalid_vaults
    \/ \E path \in CfgPaths : \E kind \in CfgKinds(path) : SetPath(path, kind)

SpecConfig == InitConfig /\ [][NextConfig]_vars

\* The cross scope: two vaults with a password each are unlocked, and the
\* note and folder operations are called on the path of the first (the
\* VaultManager of the call is VaultManager::new("v1"): index_file and
\* note_files are the files under that path) with any live session id.
CrossFile(v) ==
    IF v = "v1" THEN GoodFile
    ELSE FileOk(VaultInfoNewEncrypted(create_vault_crypto("pw2", "s2", "n1")))

InitCross ==
    /\ now = 0
    /\ vault_file = [v \in TwoVaults |-> CrossFile(v)]
    /\ rate_limits = <<>>
    /\ sessions = <<>>
    /\ next_id = 1
    /\ pc = [t \in Threads |-> "idle"]
    /\ call = [t \in Threads |-> NoCall]
    /\ ret = NoRet
    /\ index = NotesIndex_new(0)
    /\ index_file = NoFile
    /\ note_files = <<>>
    /\ next_note = 1
    /\ work = [t \in Threads |-> NoWork]
    /\ nonces = {}
    /\ config = AppConfig_default
    /\ dirs = NoDirs

CrossBounds == [notes |-> CrossMaxNotes, folders |-> 1, len |-> 1]

NextCross ==
    \/ \E v \in TwoVaults, password \in Passwords : UnlockCheck(0, 1, v, password)
    \/ UnlockVerify(CrossMaxSessions, 1)
    \/ UnlockReset(1)
    \/ UnlockInsert(1)
    \/ UnlockRecord(0, 1)
    \/ \E id \in KnownIds : close_session(id)
    \/ \E id \in DOMAIN sessions :
          create_note(CrossBounds, id, NoneStr, NoneStr, NoneStr, NoneStr, NoneStr)
    \/ \E id \in DOMAIN sessions : get_notes_list(CrossBounds, id)
    \/ \E id \in DOMAIN sessions : create_folder(CrossBounds, id, <<"a">>)

SpecCross == InitCross /\ [][NextCross]_vars

-----------------------------------------------------------------------------
(* Concurrent calls.  update_notes_index holds no lock between its load    *)
(* and its save, so a call of thread t is two steps: up to the load, with  *)
(* the closure applied to the index it read (kept in work[t]), and the     *)
(* save.                                                                   *)

RaceStep(b, t, res, sess, ifile, nfiles, nnote, w) ==
    /\ nnote <= b.notes + 1
    /\ ret' = res
    /\ sessions' = sess
    /\ index_file' = ifile
    /\ note_files' = nfiles
    /\ next_note' = nnote
    /\ work' = [work EXCEPT ![t] = w]
    /\ UNCHANGED <<now, vault_file, rate_limits, next_id, pc, call, index, nonces, config, dirs>>

\* The load of update_notes_index and the closure: what work[t] becomes.
update_load(l, key, update_fn) ==
    IF l.ok
    THEN [op |-> "save", index |-> call_update_fn(update_fn, l.index, now), key |-> key]
    ELSE NoWork

\* create_note up to the load: validation, get_session, the note file.
create_note_load(b, t, session_id, title, folder_path, note_type) ==
    /\ work[t] = NoWork
    /\ \E n \in Nonces :
          LET s == session_lookup(session_id, now)
              note == Note_new(next_note, new_title(title), <<>>,
                               unwrap_or(note_type, TextType), <<>>, folder_path, now)
              files == write_file(note_files, note.id, note_file_data(note, s.key, n))
              l == load_notes_index(index_file, s.key, now, n)
          IN  IF \/ new_title(title) = TitleTooLong
                 \/ unwrap_or(note_type, TextType) \notin NoteTypes
              THEN RaceStep(b, t, Ret("store", <<>>, "InvalidNoteTitle", None),
                            sessions, index_file, note_files, next_note, NoWork)
              ELSE IF ~s.some
              THEN RaceStep(b, t, Ret("store", <<>>, "InvalidPassword", None),
                            s.sessions, index_file, note_files, next_note, NoWork)
              ELSE RaceStep(b, t, IF l.ok THEN NoRet ELSE Ret("store", <<>>, l.err, None),
                            s.sessions, l.file, files, next_note + 1,
                            update_load(l, s.key, [op |-> "add_note", note |-> note]))

\* create_folder up to the load.
create_folder_load(b, t, session_id, folder_path) ==
    /\ work[t] = NoWork
    /\ \E n \in Nonces :
          LET s == session_lookup(session_id, now)
              l == load_notes_index(index_file, s.key, now, n)
          IN  IF ~s.some
              THEN RaceStep(b, t, Ret("store", <<>>, "InvalidPassword", None),
                            s.sessions, index_file, note_files, next_note, NoWork)
              ELSE RaceStep(b, t, IF l.ok THEN NoRet ELSE Ret("store", <<>>, l.err, None),
                            s.sessions, l.file, note_files, next_note,
                            update_load(l, s.key,
                                        [op |-> "add_folder", folder_path |-> folder_path]))

\* The save of update_notes_index, and the return of the call.
update_save(b, t) ==
    /\ work[t] # NoWork
    /\ \E n \in Nonces :
          /\ RaceStep(b, t, Ret("store", <<>>, "Ok", None), sessions,
                      save_notes_index(work[t].index, work[t].key, n),
                      note_files, next_note, NoWork)
          /\ IndexWithin(b, work[t].index)

RaceFolders == { <<"a">>, <<"b">> }

RaceBounds == [notes |-> RaceMaxNotes, folders |-> Cardinality(RaceFolders), len |-> 1]

NextRace ==
    \/ \E t \in Threads, id \in DOMAIN sessions :
          create_note_load(RaceBounds, t, id, NoneStr, NoneStr, NoneStr)
    \/ \E t \in Threads, id \in DOMAIN sessions, p \in RaceFolders :
          create_folder_load(RaceBounds, t, id, p)
    \/ \E t \in Threads : update_save(RaceBounds, t)

SpecRace == InitUnlocked /\ [][NextRace]_vars

\* move_note holds no lock either, and looks its session up three times
\* (lines 965, 974 through load_note, 979).  A call of thread t is two
\* steps: lines 965-971, the first lookup and the index.move_note update,
\* after which work[t] keeps the arguments (and, for the properties, the
\* index file and the note files as the call found them); and lines
\* 974-1006, load_note, the note file and the index.update_note update.
MoveStep(t, res, sess, ifile, nfiles, w) ==
    /\ ret' = res
    /\ sessions' = sess
    /\ index_file' = ifile
    /\ note_files' = nfiles
    /\ work' = [work EXCEPT ![t] = w]
    /\ UNCHANGED <<now, vault_file, rate_limits, next_id, pc, call>>
    /\ UNCHANGED <<index, next_note, nonces, config, dirs>>

move_note_index(t, session_id, note_id, new_folder_path) ==
    /\ work[t] = NoWork
    /\ \E n \in Nonces :
          LET s == session_lookup(session_id, now)
              u == update_notes_index(index_file, s.key, now, n,
                                      [op |-> "move_note", note_id |-> note_id,
                                       folder_path |-> new_folder_path])
              arg == <<session_id, note_id, new_folder_path>>
          IN  IF ~s.some
              THEN MoveStep(t, Ret("move_note", arg, "InvalidPassword", None),
                            s.sessions, index_file, note_files, NoWork)
              ELSE IF ~u.ok
              THEN MoveStep(t, Ret("move_note", arg, u.err, None),
                            s.sessions, u.file, note_files, NoWork)
              ELSE MoveStep(t, NoRet, s.sessions, u.file, note_files,
                            [op |-> "move_note", session_id |-> session_id,
                             note_id |-> note_id, folder_path |-> new_folder_path,
                             index_file |-> index_file, note_files |-> note_files])

move_note_file(t) ==
    /\ work[t] # NoWork
    /\ work[t].op = "move_note"
    /\ \E n \in Nonces :
          LET w == work[t]
              s == session_lookup(w.session_id, now)
              r == read_note(note_files, w.note_id, s.key)
              note == [r.note EXCEPT !.folder_path = w.folder_path, !.updated_at = now]
              files == write_file(note_files, w.note_id, note_file_data(note, s.key, n))
              u == update_notes_index(index_file, s.key, now, n,
                                      [op |-> "update_note", note |-> note])
              arg == <<w.session_id, w.note_id, w.folder_path>>
          IN  IF ~s.some
              THEN MoveStep(t, Ret("move_note", arg, "InvalidPassword", None),
                            s.sessions, index_file, note_files, NoWork)
              ELSE IF ~r.ok
              THEN MoveStep(t, Ret("move_note", arg, r.err, None),
                            s.sessions, index_file, note_files, NoWork)
              ELSE MoveStep(t, Ret("move_note", arg, IF u.ok THEN "Ok" ELSE u.err, None),
                            s.sessions, u.file, files, NoWork)

\* The move scope: one caller moves the two notes of InitEdit between
\* folders or deletes them, while its session is closed or runs out.
MoveFolderOptions == {NoneStr, Some(<<"a">>), Some(<<"b">>)}

MoveBounds == [notes |-> Cardinality(EditNoteIds), folders |-> 0, len |-> 1]

NextMove ==
    \/ Sleep(MoveMaxSleeps)
    \/ \E id \in KnownIds, n \in KnownNotes, fp \in MoveFolderOptions :
          move_note_index(1, id, n, fp)
    \/ move_note_file(1)
    \/ \E id \in KnownIds : close_session(id)
    \/ \E id \in KnownIds, n \in KnownNotes : delete_note(MoveBounds, id, n)

SpecMove == InitEdit /\ [][NextMove]_vars

-----------------------------------------------------------------------------
(* Helpers of the properties *)

\* The lockout of vault v is active at time t.
LockoutActive(v, t) ==
    /\ v \in DOMAIN rate_limits
    /\ rate_limits[v].locked_until # None
    /\ t < rate_limits[v].locked_until

\* What a caller can observe of a vault's rate-limit state: a vault without
\* an entry is one with no failures and no lockout.
RateView(map, v) ==
    IF v \in DOMAIN map THEN <<map[v].attempts, map[v].locked_until>> ELSE <<0, None>>

\* password is the password the metadata file of v was created with.
CorrectPassword(v, password) ==
    /\ vault_file[v].state = "ok"
    /\ \E salt \in Salts, n \in Nonces :
          vault_file[v].info = VaultInfoNewEncrypted(create_vault_crypto(password, salt, n))

\* The metadata file of v is that of an encrypted vault, as created.
EncryptedVault(v) == \E password \in Passwords : CorrectPassword(v, password)

\* min(2^n, cap), without forming 2^n
RECURSIVE CappedPow2(_, _)
CappedPow2(n, cap) == IF n = 0 THEN 1 ELSE Min(2 * CappedPow2(n - 1, cap), cap)

-----------------------------------------------------------------------------
(* C1: while the lockout of a vault is active, an unlock_vault call on it, *)
(* with any password, returns RateLimited at the check, does not go on to  *)
(* password verification, creates no session and leaves the rate-limit     *)
(* state of the vault as it was.                                           *)

C1_LockedRejects ==
    [][\A t \in Threads, v \in Vaults, password \in Passwords :
          (LockoutActive(v, now) /\ UnlockCheck(MaxFine, t, v, password))
          => /\ ret'.op = "unlock_vault"
             /\ ret'.res = "RateLimited"
             /\ pc'[t] = "idle"
             /\ sessions' = sessions
             /\ rate_limits' = rate_limits]_vars

\* The correct password was rejected with RateLimited.
C1_Witness ==
    /\ ret.op = "unlock_vault"
    /\ ret.res = "RateLimited"
    /\ CorrectPassword(ret.arg[1], ret.arg[2])

-----------------------------------------------------------------------------
(* C2: the lockout check and the recording of a failure are one atomic     *)
(* step: while a vault is locked, no unlock call on it runs password       *)
(* verification or records a further failure.                              *)

C2_CheckAndRecordAtomic ==
    [][\A t \in Threads :
          (/\ pc[t] \in {"verify", "record"}
           /\ UnlockVerify(MaxSessions, t) \/ UnlockRecord(MaxFine, t))
          => ~LockoutActive(call[t].vault, now)]_vars

-----------------------------------------------------------------------------
(* C3: recording a failed unlock adds exactly 1 to attempts and sets       *)
(* locked_until to the time of recording plus min(2^attempts, 3600)        *)
(* seconds, also when 2^attempts does not fit 32 bits.                     *)

C3_BackoffSchedule ==
    [][\A t \in Threads :
          (pc[t] = "record" /\ UnlockRecord(MaxFine, t))
          => LET v == call[t].vault
                 a == RateView(rate_limits, v)[1]
             IN  /\ rate_limits'[v].attempts = a + 1
                 /\ rate_limits'[v].locked_until
                       = now' + CappedPow2(a + 1, 3600) * TicksPerSec]_vars

\* A failure was recorded past the 32nd attempt.
C3_Witness ==
    /\ ret.op = "unlock_vault"
    /\ ret.res = "InvalidPassword"
    /\ rate_limits[ret.arg[1]].attempts > U32Bits
    /\ rate_limits[ret.arg[1]].locked_until = now + 3600 * TicksPerSec

-----------------------------------------------------------------------------
(* C4: an unlock_vault call with the correct password that passed the      *)
(* check verifies successfully, resets the rate-limit state of its vault   *)
(* to attempts = 0 and locked_until = None, inserts exactly one new        *)
(* session and returns its id; a get_session on that id right after the    *)
(* return finds the session.                                               *)

C4_SuccessfulUnlock ==
    [][\A t \in Threads :
          LET v == call[t].vault
          IN  /\ (/\ pc[t] = "verify"
                  /\ CorrectPassword(v, call[t].password)
                  /\ UnlockVerify(MaxSessions, t))
                 => pc'[t] = "reset"
              /\ (pc[t] = "reset" /\ UnlockReset(t))
                 => /\ v \in DOMAIN rate_limits'
                    /\ rate_limits'[v].attempts = 0
                    /\ rate_limits'[v].locked_until = None
              /\ (pc[t] = "insert" /\ UnlockInsert(t))
                 => /\ ret'.op = "unlock_vault"
                    /\ ret'.res = "Ok"
                    /\ ret'.val \notin DOMAIN sessions
                    /\ DOMAIN sessions' = DOMAIN sessions \cup {ret'.val}
                    /\ \A j \in DOMAIN sessions : sessions'[j] = sessions[j]
              /\ (ret.op = "unlock_vault" /\ ret.res = "Ok" /\ get_session(MaxFine, ret.val))
                 => ret'.res = "Some"]_vars

\* An unlock returned a session id after earlier failures had been recorded
\* and is in the session map.
C4_Witness ==
    /\ ret.op = "unlock_vault"
    /\ ret.res = "Ok"
    /\ ret.val \in DOMAIN sessions
    /\ CorrectPassword(ret.arg[1], ret.arg[2])
    /\ rate_limits[ret.arg[1]] = [attempts |-> 0, locked_until |-> None]
    /\ now > 0

-----------------------------------------------------------------------------
(* C5: an unlock_vault call with a wrong password on an encrypted vault    *)
(* that passed the check fails with InvalidPassword, adds exactly one to   *)
(* the attempts of its vault and adds no session.                          *)

C5_WrongPassword ==
    [][\A t \in Threads :
          LET v == call[t].vault
          IN  /\ (/\ pc[t] = "verify"
                  /\ EncryptedVault(v)
                  /\ ~CorrectPassword(v, call[t].password)
                  /\ UnlockVerify(MaxSessions, t))
                 => /\ pc'[t] = "record"
                    /\ sessions' = sessions
              /\ (pc[t] = "record" /\ UnlockRecord(MaxFine, t))
                 => /\ ret'.op = "unlock_vault"
                    /\ ret'.res = "InvalidPassword"
                    /\ pc'[t] = "idle"
                    /\ RateView(rate_limits', v)[1] = RateView(rate_limits, v)[1] + 1
                    /\ sessions' = sessions]_vars

\* A wrong password on an encrypted vault was rejected and counted.
C5_Witness ==
    /\ ret.op = "unlock_vault"
    /\ ret.res = "InvalidPassword"
    /\ EncryptedVault(ret.arg[1])
    /\ ~CorrectPassword(ret.arg[1], ret.arg[2])
    /\ rate_limits[ret.arg[1]].attempts >= 1
    /\ sessions = <<>>

-----------------------------------------------------------------------------
(* C6: a failed attempt is recorded only if password verification          *)
(* completed and failed: an unlock_vault call that fails at loading the    *)
(* metadata (missing, unreadable, unparseable, not encrypted, no crypto    *)
(* metadata) or whose verification could not be completed leaves attempts  *)
(* and locked_until of its vault unchanged.                                *)

C6_RecordsOnlyCompletedFailures ==
    [][\A t \in Threads :
          LET v == call[t].vault
          IN  /\ (pc[t] = "verify" /\ ret'.op = "unlock_vault" /\ UnlockVerify(MaxSessions, t))
                 => RateView(rate_limits', v) = RateView(rate_limits, v)
              /\ (pc[t] = "record" /\ call[t].verdict # "false" /\ UnlockRecord(MaxFine, t))
                 => RateView(rate_limits', v) = RateView(rate_limits, v)]_vars

-----------------------------------------------------------------------------
(* C7: whenever get_rate_limit_status reports is_locked = true, and        *)
(* whenever unlock_vault fails with RateLimited(s), the seconds reported   *)
(* are greater than 0; a vault with no recorded state or with an elapsed   *)
(* lockout reports (false, None).                                          *)

C7_LockedReportsPositiveSeconds ==
    [][/\ \A v \in Vaults :
             get_rate_limit_status(MaxFine, v)
             => /\ ret'.res = "true" => ret'.val > 0
                /\ ~LockoutActive(v, now) => (ret'.res = "false" /\ ret'.val = None)
       /\ \A t \in Threads, v \in Vaults, password \in Passwords :
             (UnlockCheck(MaxFine, t, v, password) /\ ret'.res = "RateLimited")
             => ret'.val > 0]_vars

-----------------------------------------------------------------------------
(* C8: a session whose last_accessed is more than 30 minutes in the past   *)
(* is never returned as alive: the lookup that finds it removes it and     *)
(* returns None, and so does every later lookup of that id, in whatever    *)
(* order lookups run.                                                      *)

C8_ExpiredNeverAlive ==
    [][\A id \in KnownIds :
          /\ (/\ get_session(SessMaxFine, id)
              /\ id \in DOMAIN sessions
              /\ now - sessions[id].last_accessed > 30 * 60 * TicksPerSec)
             => /\ ret'.res = "None"
                /\ id \notin DOMAIN sessions'
          /\ (get_session(SessMaxFine, id) /\ id \notin DOMAIN sessions)
             => ret'.res = "None"
          /\ id \notin DOMAIN sessions => id \notin DOMAIN sessions']_vars

\* A lookup found an expired session, removed it and returned None.
C8_Witness ==
    /\ ret.op = "get_session"
    /\ ret.res = "None"
    /\ ret.val = Evicted
    /\ ret.arg[1] \notin DOMAIN sessions

-----------------------------------------------------------------------------
(* C9: expiry is sliding: a get_session that finds a session accessed at   *)
(* most 30 minutes ago returns it and sets its last_accessed to the        *)
(* current time, however long ago the session was created; created_at of   *)
(* a session never changes.                                                *)

C9_SlidingExpiry ==
    [][\A id \in KnownIds :
          /\ (/\ get_session(SessMaxFine, id)
              /\ id \in DOMAIN sessions
              /\ now - sessions[id].last_accessed <= 30 * 60 * TicksPerSec)
             => /\ ret'.res = "Some"
                /\ id \in DOMAIN sessions'
                /\ sessions'[id].last_accessed = now'
          /\ (id \in DOMAIN sessions /\ id \in DOMAIN sessions')
             => sessions'[id].created_at = sessions[id].created_at]_vars

\* A session created more than 30 minutes ago was returned alive.
C9_Witness ==
    /\ ret.op = "get_session"
    /\ ret.res = "Some"
    /\ ret.arg[1] \in DOMAIN sessions
    /\ now - sessions[ret.arg[1]].created_at > 30 * 60 * TicksPerSec
    /\ sessions[ret.arg[1]].last_accessed = now

-----------------------------------------------------------------------------
(* C10: close_session(id) removes the entry of id and returns true exactly *)
(* when there was one; it leaves every other session as it was; an id that *)
(* is not in the map is never in the map again, so get_session on a closed *)
(* id returns None from then on.                                           *)

C10_CloseSession ==
    [][\A id \in KnownIds :
          /\ close_session(id)
             => /\ ret'.res = (IF id \in DOMAIN sessions THEN "true" ELSE "false")
                /\ DOMAIN sessions' = DOMAIN sessions \ {id}
                /\ \A j \in DOMAIN sessions' : sessions'[j] = sessions[j]
          /\ (id \notin DOMAIN sessions /\ id \in DOMAIN sessions')
             => FALSE
          /\ (ret.op = "close_session" /\ get_session(SessMaxFine, ret.arg[1]))
             => ret'.res = "None"]_vars

\* A session was closed while another one stayed in the map.
C10_Witness ==
    /\ ret.op = "close_session"
    /\ ret.res = "true"
    /\ ret.arg[1] \notin DOMAIN sessions
    /\ sessions # <<>>

-----------------------------------------------------------------------------
(* Helpers of the index properties *)

\* p is path or lies under it: path, a "/", and the rest.
Under(p, path) ==
    \/ p = path
    \/ /\ Len(p) > Len(path)
       /\ \A i \in 1..Len(path) : p[i] = path[i]
       /\ p[Len(path) + 1] = "/"

\* Where a rename of old_path to new_path takes the path p.
Renamed(p, old_path, new_path) ==
    IF Under(p, old_path)
    THEN new_path \o [i \in 1..(Len(p) - Len(old_path)) |-> p[Len(old_path) + i]]
    ELSE p

\* The proper ancestors of a path: what precedes each of its separators.
Ancestors(p) == {SubSeq(p, 1, i - 1) : i \in {j \in 1..Len(p) : p[j] = "/"}}

FolderSet(idx) == {idx.folders[i].path : i \in 1..Len(idx.folders)}

-----------------------------------------------------------------------------
(* C15: NotesIndex::move_folder(old, new), when old is a folder and new is *)
(* not, takes old to new and each path under old to new followed by the    *)
(* unchanged rest, in the folder entries and in the notes' folder paths,   *)
(* and leaves every other path as it was.                                  *)

C15_MoveFolderMapping ==
    [][\A old_path \in IndexPaths, new_path \in IndexPaths :
          (/\ has_folder(index.folders, old_path)
           /\ ~has_folder(index.folders, new_path)
           /\ IndexMoveFolder(IdxBounds, old_path, new_path))
          => /\ Len(index'.folders) = Len(index.folders)
             /\ \A i \in 1..Len(index.folders) :
                   index'.folders[i].path
                      = Renamed(index.folders[i].path, old_path, new_path)
             /\ Len(index'.notes) = Len(index.notes)
             /\ \A i \in 1..Len(index.notes) :
                   index'.notes[i].folder_path
                      = IF index.notes[i].folder_path = NoneStr THEN NoneStr
                        ELSE Some(Renamed(index.notes[i].folder_path[1],
                                          old_path, new_path))]_vars

-----------------------------------------------------------------------------
(* C16: NotesIndex::remove_folder(path) fails and leaves folders and notes *)
(* as they were exactly when a note's folder path is path or lies under    *)
(* it; otherwise it removes the folder entries that are path or lie under  *)
(* it, and keeps every other folder and every note.                        *)

C16_RemoveFolder ==
    [][\A path \in FolderPaths :
          (/\ ret'.op = "remove_folder"
           /\ ret'.arg = <<path>>
           /\ IndexRemoveFolder(FoldBounds, path))
          => LET blocked == \E i \in 1..Len(index.notes) :
                               /\ index.notes[i].folder_path # NoneStr
                               /\ Under(index.notes[i].folder_path[1], path)
                 stays(f) == ~Under(f.path, path)
             IN  /\ ret'.res = (IF blocked THEN "Err" ELSE "Ok")
                 /\ index'.notes = index.notes
                 /\ blocked => index'.folders = index.folders
                 /\ ~blocked => index'.folders = SelectSeq(index.folders, stays)]_vars

\* A folder was removed while a folder and a note whose paths extend its
\* name without being under it stayed.
C16_Witness ==
    /\ ret.op = "remove_folder"
    /\ ret.res = "Ok"
    /\ ret.arg = << <<"a">> >>
    /\ <<"a", "b">> \in FolderSet(index)
    /\ \E i \in 1..Len(index.notes) : index.notes[i].folder_path = Some(<<"a", "b">>)

-----------------------------------------------------------------------------
(* C17: NotesIndex::add_folder(path), for a non-empty path that is not a   *)
(* folder, appends path and each of its proper ancestors that is not a     *)
(* folder, once each, and keeps every entry there was; on a path that is a *)
(* folder it fails and leaves the folders as they were.                    *)

C17_AddFolder ==
    [][\A path \in FolderPaths :
          (/\ Len(path) > 0
           /\ ret'.op = "add_folder"
           /\ ret'.arg = <<path>>
           /\ IndexAddFolder(FoldBounds, path))
          => IF path \in FolderSet(index)
             THEN /\ ret'.res = "Err"
                  /\ index'.folders = index.folders
             ELSE LET added == ({path} \cup Ancestors(path)) \ FolderSet(index)
                  IN  /\ ret'.res = "Ok"
                      /\ Len(index'.folders) = Len(index.folders) + Cardinality(added)
                      /\ SubSeq(index'.folders, 1, Len(index.folders)) = index.folders
                      /\ FolderSet(index') = FolderSet(index) \cup added]_vars

\* A nested folder was created and its parent is a folder.
C17_Witness ==
    /\ ret.op = "add_folder"
    /\ ret.res = "Ok"
    /\ ret.arg = << <<"a", "/", "b">> >>
    /\ FolderSet(index) = { <<"a">>, <<"a", "/", "b">> }

-----------------------------------------------------------------------------
(* C20: in every index the operations of NotesIndex lead to, no two note   *)
(* entries have the same id and no two folder entries the same path.       *)

C20_UniqueEntries ==
    /\ \A i \in 1..Len(index.notes), j \in 1..Len(index.notes) :
          index.notes[i].id = index.notes[j].id => i = j
    /\ \A i \in 1..Len(index.folders), j \in 1..Len(index.folders) :
          index.folders[i].path = index.folders[j].path => i = j

-----------------------------------------------------------------------------
(* Helpers of the store properties *)

\* The session id is unknown, closed or expired.
InvalidSession(id) ==
    IF id \in DOMAIN sessions THEN is_expired(sessions[id], SessionTimeout, now) ELSE TRUE

\* The call fails with err and leaves the index file and the note files.
ResultRefused(r, err) ==
    /\ r.res = err
    /\ r.index_file = index_file
    /\ r.note_files = note_files

\* Each of the nine operations other than create_note, called with this
\* session id and any arguments of the store scope, fails with err and
\* leaves the files.
OthersRefused(id, err) ==
    \A nc \in Nonces :
        /\ ResultRefused(get_notes_list_result(now, nc, id), err)
        /\ ResultRefused(get_folders_list_result(now, nc, id), err)
        /\ \A n \in KnownNotes :
              /\ ResultRefused(load_note_result(now, id, n), err)
              /\ ResultRefused(delete_note_result(now, nc, id, n), err)
              /\ \A fp \in StoreFolderOptions :
                    /\ ResultRefused(move_note_result(now, nc, id, n, fp), err)
                    /\ \A title \in StoreTitles, content \in StoreContents, tags \in StoreTags :
                          ResultRefused(save_note_result(now, nc, id, n, title, content,
                                                         tags, fp), err)
        /\ \A q \in StoreFolders :
              /\ ResultRefused(folder_op_result(now, nc, id,
                                   [op |-> "add_folder", folder_path |-> q]), err)
              /\ ResultRefused(folder_op_result(now, nc, id,
                                   [op |-> "remove_folder", folder_path |-> q]), err)
              /\ \A q2 \in StoreFolders :
                    ResultRefused(folder_op_result(now, nc, id,
                                     [op |-> "move_folder", old_path |-> q,
                                      new_path |-> q2]), err)

\* create_note, called with this session id, title and note type, fails
\* with err and leaves the files.
CreateNoteRefused(id, title, ty, err) ==
    \A nc \in Nonces, content \in StoreContents, tags \in StoreTags,
       fp \in StoreFolderOptions :
       ResultRefused(create_note_result(now, nc, id, title, content, tags, fp, ty), err)

\* create_note rejects the title or the note type.
RejectedNoteArgs(title, ty) ==
    \/ new_title(title) = TitleTooLong
    \/ unwrap_or(ty, TextType) \notin NoteTypes

\* The step fails with err and leaves the index file and the note files.
RefusedWith(err) ==
    /\ ret'.res = err
    /\ index_file' = index_file
    /\ note_files' = note_files

-----------------------------------------------------------------------------
(* C11 as stated: in every state, every note and folder operation called   *)
(* with a session id that is unknown, closed or expired fails with         *)
(* InvalidPassword and leaves the index file and all note files unchanged. *)

C11_InvalidSession ==
    \A id \in KnownIds :
        InvalidSession(id)
        => /\ OthersRefused(id, "InvalidPassword")
           /\ \A title \in StoreTitles, ty \in StoreNoteTypes :
                 CreateNoteRefused(id, title, ty, "InvalidPassword")

(* C11, amended: every note and folder operation called with a session id  *)
(* that is unknown, closed or expired leaves the index file and all note   *)
(* files unchanged and fails with InvalidPassword, except that create_note *)
(* with a title of more than 200 bytes after trimming or a note type that  *)
(* is neither text nor whiteboard fails with InvalidNoteTitle.             *)

C11_InvalidSessionFails ==
    \A id \in KnownIds :
        InvalidSession(id)
        => /\ OthersRefused(id, "InvalidPassword")
           /\ \A title \in StoreTitles, ty \in StoreNoteTypes :
                 CreateNoteRefused(id, title, ty,
                                   IF RejectedNoteArgs(title, ty)
                                   THEN "InvalidNoteTitle" ELSE "InvalidPassword")

\* An operation on a session that has expired was refused while the vault
\* holds an index file and a note file.
C11_Witness ==
    /\ ret.op = "store"
    /\ ret.res = "InvalidPassword"
    /\ next_id > 1
    /\ DOMAIN sessions = {}
    /\ now > SessionTimeout
    /\ index_file # NoFile
    /\ DOMAIN note_files # {}

-----------------------------------------------------------------------------
(* Helpers of the two-store properties *)

\* The index the index file holds; an absent file stands for the empty index.
PersistedIndex ==
    IF index_file = NoFile THEN NotesIndex_new(0)
    ELSE open_envelope(index_file[1], VaultKey).v

-----------------------------------------------------------------------------
(* C14: after a successful move_folder(old, new), every note whose         *)
(* folder_path was old or nested under old has the new folder path in both *)
(* stores: load_note returns the rewritten folder_path, equal to that of   *)
(* the note's index entry.                                                 *)

C14_MoveFolderBothStores ==
    [][\A id \in DOMAIN sessions, old_path \in FolderPaths, new_path \in FolderPaths :
          (/\ has_folder(PersistedIndex.folders, old_path)
           /\ ~has_folder(PersistedIndex.folders, new_path)
           /\ move_folder_op(FoldBounds, id, old_path, new_path)
           /\ ret'.res = "Ok")
          => \A i \in 1..Len(PersistedIndex.notes) :
                LET entry == PersistedIndex.notes[i]
                    loaded == read_note(note_files', entry.id, VaultKey)
                IN  (entry.folder_path # NoneStr /\ Under(entry.folder_path[1], old_path))
                    => /\ loaded.ok
                       /\ loaded.note.folder_path
                             = Some(Renamed(entry.folder_path[1], old_path, new_path))
                       /\ loaded.note.folder_path = PersistedIndex'.notes[i].folder_path]_vars

-----------------------------------------------------------------------------
(* C18: the folder operations report rejection: create_folder fails when   *)
(* the path is empty or already a folder, delete_folder fails when a note  *)
(* is in or under the folder, move_folder fails when the destination is a  *)
(* folder or the source is not; none of them returns Ok then.              *)

C18_FolderRejection ==
    [][\A id \in DOMAIN sessions, p \in FolderPaths :
          /\ (/\ p = <<>> \/ has_folder(PersistedIndex.folders, p)
              /\ create_folder(FoldBounds, id, p))
             => ret'.res # "Ok"
          /\ (/\ \E i \in 1..Len(PersistedIndex.notes) :
                    /\ PersistedIndex.notes[i].folder_path # NoneStr
                    /\ Under(PersistedIndex.notes[i].folder_path[1], p)
              /\ delete_folder(FoldBounds, id, p))
             => ret'.res # "Ok"
          /\ \A q \in FolderPaths :
                (/\ \/ has_folder(PersistedIndex.folders, q)
                    \/ ~has_folder(PersistedIndex.folders, p)
                 /\ move_folder_op(FoldBounds, id, p, q))
                => ret'.res # "Ok"]_vars

-----------------------------------------------------------------------------
(* C19: in every persisted index, each note's folder_path is None, empty,  *)
(* or the path of a folder of the index.                                   *)

C19_FolderPathsExist ==
    \A i \in 1..Len(PersistedIndex.notes) :
        LET fp == PersistedIndex.notes[i].folder_path
        IN  \/ fp = NoneStr
            \/ fp[1] = <<>>
            \/ has_folder(PersistedIndex.folders, fp[1])

-----------------------------------------------------------------------------
(* C13: after any sequence of create_note, save_note, move_note and        *)
(* delete_note calls by a single caller, the note ids of the index are the *)
(* ids of the note files, and the title, note_type, tags, folder_path,     *)
(* created_at and updated_at of each index entry are those stored in the   *)
(* file of its note.                                                       *)

C13_StoresConsistent ==
    /\ {PersistedIndex.notes[i].id : i \in 1..Len(PersistedIndex.notes)} = DOMAIN note_files
    /\ \A i \in 1..Len(PersistedIndex.notes) :
          LET entry == PersistedIndex.notes[i]
              stored == read_note(note_files, entry.id, VaultKey)
          IN  /\ stored.ok
              /\ entry.title = stored.note.title
              /\ entry.note_type = stored.note.note_type
              /\ entry.tags = stored.note.tags
              /\ entry.folder_path = stored.note.folder_path
              /\ entry.created_at = stored.note.created_at
              /\ entry.updated_at = stored.note.updated_at

\* A note that was created, then saved with a title, tags and a folder at a
\* later time, is in both stores.
C13_Witness ==
    \E i \in 1..Len(PersistedIndex.notes) :
        /\ PersistedIndex.notes[i].id \in DOMAIN note_files
        /\ PersistedIndex.notes[i].title = <<"t">>
        /\ PersistedIndex.notes[i].tags = <<"x">>
        /\ PersistedIndex.notes[i].folder_path = Some(<<"a">>)
        /\ PersistedIndex.notes[i].updated_at > PersistedIndex.notes[i].created_at

-----------------------------------------------------------------------------
(* C12: index mutations on one vault are serialized, no update is lost:    *)
(* where concurrent calls only add entries (create_note, create_folder),   *)
(* no step takes a note or a folder out of the persisted index, so the     *)
(* index after both calls completed holds what each of them added.         *)

C12_NoLostUpdate ==
    [][/\ \A i \in 1..Len(PersistedIndex.notes) :
             \E k \in 1..Len(PersistedIndex'.notes) :
                 PersistedIndex'.notes[k].id = PersistedIndex.notes[i].id
       /\ FolderSet(PersistedIndex) \subseteq FolderSet(PersistedIndex')]_vars

-----------------------------------------------------------------------------
(* C21: in every state, a save_note that succeeds keeps each of title,      *)
(* content, tags and folder_path it is given as None and sets those it is  *)
(* given, never changes id and created_at, sets updated_at to the time of  *)
(* the save, and leaves every other note file and every other index entry  *)
(* as it was.                                                              *)

C21_SaveNoteFrame ==
    \A id \in DOMAIN sessions, n \in EditNoteIds, title \in EditTitles,
       content \in EditContents, tags \in EditTags, fp \in EditFolderOptions, nc \in Nonces :
       LET r == save_note_result(now, nc, id, n, title, content, tags, fp)
           old == read_note(note_files, n, VaultKey).note
           new == read_note(r.note_files, n, VaultKey).note
           before == PersistedIndex.notes
           after == open_envelope(r.index_file[1], VaultKey).v
       IN  r.res = "Ok"
           => /\ r.val = new
              /\ new = [old EXCEPT
                           !.title = IF title = NoneStr THEN @ ELSE trim(title[1]),
                           !.content = IF content = NoneStr THEN @ ELSE content[1],
                           !.tags = IF tags = NoneStr THEN @ ELSE tags[1],
                           !.folder_path = IF fp = NoneStr THEN @ ELSE fp,
                           !.updated_at = now]
              /\ DOMAIN r.note_files = DOMAIN note_files
              /\ \A m \in DOMAIN note_files \ {n} : r.note_files[m] = note_files[m]
              /\ Len(after.notes) = Len(before)
              /\ \A k \in 1..Len(before) :
                    IF before[k].id = n
                    THEN /\ after.notes[k].id = n
                         /\ after.notes[k].created_at = old.created_at
                    ELSE after.notes[k] = before[k]
              /\ after.folders = PersistedIndex.folders

\* Note 1 was saved with a title only, after it was created: it has the new
\* title and the content, tags and folder it was created with, and note 2
\* is as it was created.
C21_Witness ==
    /\ ret.op = "store"
    /\ ret.res = "Ok"
    /\ now > 0
    /\ read_note(note_files, 1, VaultKey).note
          = [EditNote(1) EXCEPT !.title = <<"u">>, !.updated_at = now]
    /\ read_note(note_files, 2, VaultKey).note = EditNote(2)
    /\ PersistedIndex.notes[2] = NoteMetadata_from(EditNote(2))

-----------------------------------------------------------------------------
(* C22: delete_note with a valid session returns Ok whether or not the     *)
(* note is stored; afterwards the id is in neither the note files nor the  *)
(* index; every other note file, every other index entry and the folders   *)
(* are as they were; and a delete_note of an id that is in neither store   *)
(* (as after a first delete) leaves the stored notes as they were.         *)

C22_DeleteNote ==
    [][\A id \in DOMAIN sessions, n \in KnownNotes :
          delete_note(DeleteBounds, id, n)
          => LET stays(e) == e.id # n
                 stored == \/ n \in DOMAIN note_files
                           \/ \E k \in 1..Len(PersistedIndex.notes) :
                                 PersistedIndex.notes[k].id = n
             IN  /\ ret'.res = "Ok"
                 /\ DOMAIN note_files' = DOMAIN note_files \ {n}
                 /\ \A m \in DOMAIN note_files' : note_files'[m] = note_files[m]
                 /\ PersistedIndex'.notes = SelectSeq(PersistedIndex.notes, stays)
                 /\ PersistedIndex'.folders = PersistedIndex.folders
                 /\ ~stored => /\ note_files' = note_files
                                /\ PersistedIndex'.notes = PersistedIndex.notes]_vars

\* Note 1 was deleted: it is in neither store, while note 2, saved under a
\* new title, and the folder are.
C22_Witness ==
    /\ ret.op = "store"
    /\ ret.res = "Ok"
    /\ DOMAIN note_files = {2}
    /\ Len(PersistedIndex.notes) = 1
    /\ PersistedIndex.notes[1].id = 2
    /\ PersistedIndex.notes[1].title = <<"u">>
    /\ has_folder(PersistedIndex.folders, <<"b">>)

-----------------------------------------------------------------------------
(* C23: with a live session, load_note and save_note on an id whose note   *)
(* file is absent fail with NoteNotFound, and save_note then writes no     *)
(* note file and leaves the index as it was; a save_note whose title is    *)
(* blank after trimming or longer than 200 characters is rejected, and a   *)
(* save_note rejected for its title leaves the note files and the index    *)
(* as they were.                                                           *)

C23_AbsentOrRejected ==
    [][\A id \in DOMAIN sessions, n \in KnownNotes :
          /\ (n \notin DOMAIN note_files /\ load_note(DeleteBounds, id, n))
             => RefusedWith("NoteNotFound")
          /\ \A title \in DeleteTitles :
                save_note(DeleteBounds, id, n, title, NoneStr, NoneStr, NoneStr)
                => /\ n \notin DOMAIN note_files => RefusedWith("NoteNotFound")
                   /\ (/\ n \in DOMAIN note_files
                       /\ \/ Len(trim(title[1])) = 0
                          \/ Len(trim(title[1])) > 200)
                      => ret'.res = "InvalidNoteTitle"
                   /\ ret'.res = "InvalidNoteTitle" => RefusedWith("InvalidNoteTitle")]_vars

\* A call on note 1 after it was deleted failed with NoteNotFound, while
\* note 2 is stored.
C23_Witness ==
    /\ ret.op = "store"
    /\ ret.res = "NoteNotFound"
    /\ DOMAIN note_files = {2}
    /\ Len(PersistedIndex.notes) = 1

-----------------------------------------------------------------------------
(* C24: a create_note that succeeds stores the title "Untitled" when the   *)
(* title is absent or blank after trimming and otherwise the trimmed       *)
(* title, and the note type given, "text" when none is; a create_note      *)
(* whose trimmed title exceeds 200 characters, or whose note type is given *)
(* and is neither "text" nor "whiteboard", fails, writes no note file and  *)
(* leaves the index as it was.                                             *)

-----------------------------------------------------------------------------
(* Password verification *)

VaultLevelErrors == {"VaultNotFound", "VaultCorrupted", "NotEncrypted", "InvalidFormat"}

\* C25: verify_password returns false, never an error, whenever the
\* password is rejected at either stage, also when the stored salt, the
\* test-vector ciphertext or the test-vector nonce is corrupted.
C25_VerifyNeverErrors ==
    (ret.op = "verify_vault_password" /\ ret.res \notin VaultLevelErrors)
    => ret.res \in {"true", "false"}

\* The metadata file of v holds what create_vault_crypto(p) returned.
CreatedWith(v, p) ==
    \E salt \in CryptoSalts, n \in CryptoNonces :
        vault_file[v] = FileOk(VaultInfoNewEncrypted(create_vault_crypto(p, salt, n)))

\* Both stages of verify_password pass for q: the stored hash is a hash of
\* q, and the stored test vector decrypts to the test plaintext under the
\* key re-derived from q and the stored salt.
BothStagesPass(q, vc) ==
    LET salt == salt_from_b64(vc.salt)
        ct == base64_decode(vc.key_test_vector)
        nb == base64_decode(vc.key_test_nonce)
    IN  /\ Len(vc.password_hash) = 3
        /\ vc.password_hash[3] = q
        /\ salt.ok /\ ct.ok /\ nb.ok
        /\ aead_decrypt(derive_key(q, salt.v), nb.v, ct.v) = [ok |-> TRUE, v |-> TestPlaintext]

\* C26: for metadata produced by create_vault_crypto(p), verify_password(q)
\* is true exactly when q = p (and false otherwise); and for any metadata
\* it is true only if the stored-hash check passes and the test vector
\* decrypts to the fixed plaintext under the key re-derived from q.
C26_VerifyExactPassword ==
    \A v \in Vaults, q \in Passwords :
        LET r == verify_vault_password_result(v, q)
        IN  /\ \A p \in Passwords :
                  CreatedWith(v, p) => r = (IF q = p THEN "true" ELSE "false")
            /\ r = "true" => BothStagesPass(q, vault_file[v].info.crypto)

C26_Witness ==
    /\ ret.op = "verify_vault_password"
    /\ ret.arg = <<"v1", "pw2">>
    /\ ret.res = "true"
    /\ CreatedWith("v1", "pw2")

-----------------------------------------------------------------------------
(* encrypt_data and decrypt_data *)

\* ciphertext is what encryption under key and nonce produced.
Genuine(ciphertext, nonce, key) ==
    \E m \in Plaintexts : ciphertext = aead_encrypt(key, nonce, m)

\* C27 as stated: decrypt_data reports the same Decryption error for a
\* nonce that is not 12 bytes, a wrong key, a wrong nonce and a corrupted
\* ciphertext.
C27_SameDecryptionError ==
    (ret.op = "decrypt_data" /\ ret.res # "Ok") => ret.res = "Decryption"

\* C27, amended: decrypt_data fails with InvalidNonceLength for a nonce
\* that is not exactly 12 bytes, and otherwise fails, with the same
\* Decryption error, for a wrong key, a wrong nonce and a corrupted
\* ciphertext; it succeeds in no other case.
C27_DecryptErrors ==
    ret.op = "decrypt_data"
    => LET ciphertext == ret.arg[1]
           nonce == ret.arg[2]
           key == ret.arg[3]
       IN  ret.res = (IF nonce.len # NonceLen THEN "InvalidNonceLength"
                      ELSE IF Genuine(ciphertext, nonce, key) THEN "Ok"
                      ELSE "Decryption")

C27_Witness ==
    /\ ret.op = "decrypt_data"
    /\ ret.res = "InvalidNonceLength"
    /\ Genuine(ret.arg[1], Nonce(ret.arg[2].id), ret.arg[3])

-----------------------------------------------------------------------------
(* Key derivation *)

\* The key the test vector of vc was encrypted with at vault creation
TestVectorKey(vc) == base64_decode(vc.key_test_vector).v[2]

-----------------------------------------------------------------------------
(* Vault creation *)

\* C30: initialize_vault and initialize_encrypted_vault fail with
\* VaultExists when a metadata file exists at the path, and then leave the
\* metadata file, the notes and the index file as they were.
C30_VaultExists ==
    [][ \A v \in Vaults :
          vault_exists(v)
          => /\ initialize_vault(v)
                => /\ ret'.res = "VaultExists"
                   /\ UNCHANGED <<vault_file, index_file, note_files>>
             /\ (\E password \in Passwords, salt \in Salts, n \in Nonces :
                    initialize_encrypted_vault(v, password, salt, n))
                => /\ ret'.res = "VaultExists"
                   /\ UNCHANGED <<vault_file, index_file, note_files>> ]_vars

C30_Witness ==
    /\ ret.op = "initialize_encrypted_vault"
    /\ ret.res = "VaultExists"
    /\ vault_file["v1"] = GoodFile
    /\ DOMAIN note_files # {}
    /\ index_file # NoFile

-----------------------------------------------------------------------------
(* The metadata file *)

\* C31: once a vault has been created, no operation rewrites its metadata
\* file, and the file has crypto present exactly when is_encrypted is true.
C31_MetadataWrittenOnce ==
    /\ [](\A v \in Vaults :
             vault_exists(v)
             => /\ vault_file[v].state = "ok"
                /\ vault_file[v].info.has_crypto = vault_file[v].info.is_encrypted)
    /\ [][\A v \in Vaults : vault_exists(v) => vault_file'[v] = vault_file[v]]_vars

C31_Witness ==
    /\ vault_file["v1"] = FileOk(VaultInfoNewEncrypted(create_vault_crypto("pw2", "s1", "n1")))
    /\ ret.op = "store"
    /\ ret.res = "Ok"
    /\ DOMAIN note_files # {}
    /\ "v1" \in DOMAIN rate_limits

-----------------------------------------------------------------------------
(* The content preview *)

\* The entries of the persisted index
PersistedNotes ==
    IF index_file = NoFile THEN <<>>
    ELSE open_envelope(index_file[1], VaultKey).v.notes

\* The content stored in the file of note id
StoredContent(id) == open_envelope(note_files[id], VaultKey).v.content

\* C32: the content_preview of an index entry equals the content when the
\* content has at most 100 characters, and otherwise is a prefix of the
\* content followed by "..." with a total length of at most 100 characters;
\* and building it never fails: no note is left without its entry.
C32_ContentPreview ==
    /\ ret.res # "panic"
    /\ \A id \in DOMAIN note_files :
          \E i \in 1..Len(PersistedNotes) : PersistedNotes[i].id = id
    /\ \A i \in 1..Len(PersistedNotes) :
          LET p == PersistedNotes[i].content_preview
              c == StoredContent(PersistedNotes[i].id)
          IN  IF Len(c) <= MaxPreviewLen THEN p = c
              ELSE /\ Len(p) <= MaxPreviewLen
                   /\ \E k \in 0..Len(c) : p = SubSeq(c, 1, k) \o <<".", ".", ".">>

-----------------------------------------------------------------------------
(* The attempts counter *)

\* The attempts counter of vault path v in map: a path without an entry
\* has had no failure.
attempts_of(map, v) == IF v \in DOMAIN map THEN map[v].attempts ELSE 0

\* C33: the attempts counter of a vault path changes only through unlock
\* attempts on that path: +1 when a failed verification is recorded, 0
\* when a successful one is; every other step (a lockout running out, an
\* attempt rejected while locked, a status query, unlock steps on another
\* path) leaves it unchanged, and the lockout a failure sets is not shorter
\* than the one the failure before it set.
C33_AttemptsFrame ==
    [][ \A v \in TwoVaults :
          LET a == attempts_of(rate_limits, v)
              a2 == attempts_of(rate_limits', v)
              Recording ==
                  \E t \in Threads : pc[t] = "record" /\ pc'[t] = "idle" /\ call[t].vault = v
              Resetting ==
                  \E t \in Threads : pc[t] = "reset" /\ pc'[t] = "insert" /\ call[t].vault = v
          IN  /\ a2 # a => (Recording \/ Resetting)
              /\ Recording
                 => /\ \A t \in Threads : pc[t] = "record" => call[t].verdict # "true"
                    /\ a2 = a + 1
                    /\ rate_limits'[v].locked_until - now' = from_secs(backoff_seconds(a2))
                    /\ a >= 1 => backoff_seconds(a2) >= backoff_seconds(a)
              /\ Resetting
                 => /\ \A t \in Threads : pc[t] = "reset" => call[t].verdict = "true"
                    /\ a2 = 0 ]_vars

\* A second failure on v1 after its first lockout ran out, while v2 holds
\* a failure of its own.
C33_Witness ==
    /\ attempts_of(rate_limits, "v1") = 2
    /\ attempts_of(rate_limits, "v2") = 1
    /\ ret.op = "unlock_vault"
    /\ ret.res = "InvalidPassword"
    /\ ret.arg[1] = "v1"

-----------------------------------------------------------------------------
(* The application configuration                                            *)

\* A call of set_current_vault(Some(id)) that returned Ok
Selected(id) ==
    /\ ret'.op = "set_current_vault"
    /\ ret'.res = "Ok"
    /\ ret'.arg = <<id>>

NoDuplicates(ids) == \A i, j \in 1..Len(ids) : ids[i] = ids[j] => i = j

\* C34: recent_vault_ids never holds an id twice and never more than
\* max_recent_vaults ids, and a successful set_current_vault(Some(id)) puts
\* id in front, followed by the ids that were there before, in the order
\* they had, id itself taken out, as many as fit.
C34_RecentVaults ==
    /\ [](/\ NoDuplicates(config.recent_vault_ids)
          /\ Len(config.recent_vault_ids) <= config.max_recent_vaults)
    /\ [][\A id \in KnownIds : Selected(id) =>
            LET before == config.recent_vault_ids
                after == config'.recent_vault_ids
                others == {i \in 1..Len(before) : before[i] # id}
            IN  /\ after[1] = id
                /\ Len(after) = Min(Cardinality(others) + 1, config.max_recent_vaults)
                /\ \A k \in 2..Len(after) :
                      \E i \in others :
                         /\ after[k] = before[i]
                         /\ Cardinality({j \in others : j < i}) = k - 2]_vars

\* An id that stood second of three is selected again: it is first now, the
\* other two follow in the order they had.
C34_Witness ==
    /\ ret.op = "set_current_vault"
    /\ ret.res = "Ok"
    /\ Len(config.recent_vault_ids) = 3
    /\ config.recent_vault_ids = <<2, 3, 1>>
    /\ config.known_vaults[2].last_accessed # None

KnownVaultIds(cfg) == {cfg.known_vaults[i].id : i \in 1..Len(cfg.known_vaults)}

ErrorReturned ==
    /\ ret'.op \in {"add_known_vault", "remove_known_vault", "set_current_vault",
                    "cleanup_invalid_vaults"}
    /\ ret'.res \in {"VaultNotFound", "InvalidVaultPath"}

\* C35: the current vault is None or a known vault, every recent id is the
\* id of a known vault, no two known vaults have the same path, and a call
\* that returns VaultNotFound or InvalidVaultPath leaves the config as it was.
C35_ConfigConsistent ==
    /\ [](/\ config.current_vault_id \in KnownVaultIds(config) \cup {None}
          /\ \A i \in 1..Len(config.recent_vault_ids) :
                config.recent_vault_ids[i] \in KnownVaultIds(config)
          /\ \A i, j \in 1..Len(config.known_vaults) :
                config.known_vaults[i].path = config.known_vaults[j].path => i = j)
    /\ [][ErrorReturned => config' = config]_vars

\* The current vault, which was also a recent one, has just been removed
\* while two others stay known.
C35_Witness ==
    /\ ret.op = "remove_known_vault"
    /\ ret.res = "Ok"
    /\ config.current_vault_id = None
    /\ Len(config.known_vaults) = 2
    /\ Len(config.recent_vault_ids) = 1
    /\ ret.arg[1] \notin KnownVaultIds(config)

-----------------------------------------------------------------------------
(* The shape of the folder set                                              *)

\* C36: for every folder of the index, each proper prefix of its path is a
\* folder of the index too.
C36_AncestorClosed ==
    \A p \in FolderSet(index) : Ancestors(p) \subseteq FolderSet(index)

\* C39: no folder of the index has an empty path or a path with an empty
\* segment.
C39_NoEmptySegment ==
    \A p \in FolderSet(index) :
       /\ Len(p) > 0
       /\ \A i \in 1..Len(split(p)) : Len(split(p)[i]) > 0

-----------------------------------------------------------------------------
(* move_note, all or nothing                                                *)

\* The index entries of note id in an index file, and the note stored in
\* its file (None when there is no file)
EntriesOf(file, id) ==
    IF file = NoFile THEN <<>>
    ELSE LET is_id(m) == m.id = id
         IN  SelectSeq(open_envelope(file[1], VaultKey).v.notes, is_id)

StoredNote(files, id) ==
    IF id \in DOMAIN files THEN open_envelope(files[id], VaultKey).v ELSE None

\* A move_note call of thread t returns, at its first step or at its
\* second (no other step leaves a result of move_note).
Returning(t) ==
    /\ ret'.op = "move_note"
    /\ work'[t] = NoWork

\* The files as the call found them
FoundIndex(t) == IF work[t] = NoWork THEN index_file ELSE work[t].index_file

FoundNotes(t) == IF work[t] = NoWork THEN note_files ELSE work[t].note_files

\* C38: a move_note call that returns an error leaves the index entry and
\* the file of the note as it found them; one that returns Ok leaves both
\* with the new folder_path.
C38_MoveNoteAllOrNothing ==
    [][Returning(1) =>
         LET id == ret'.arg[2]
         IN  IF ret'.res = "Ok"
             THEN /\ \A i \in 1..Len(EntriesOf(index_file', id)) :
                        EntriesOf(index_file', id)[i].folder_path = ret'.arg[3]
                  /\ StoredNote(note_files', id).folder_path = ret'.arg[3]
             ELSE /\ EntriesOf(index_file', id) = EntriesOf(FoundIndex(1), id)
                  /\ StoredNote(note_files', id) = StoredNote(FoundNotes(1), id)]_vars

-----------------------------------------------------------------------------
(* A session and its vault                                                  *)

\* C37: the index file and every note file stored under the path of a
\* vault open under the key derived from that vault's password and salt:
\* no call made with the session of another vault has written them.
C37_OwnKeyOnly ==
    /\ index_file # NoFile => open_envelope(index_file[1], VaultKey).ok
    /\ \A id \in DOMAIN note_files : open_envelope(note_files[id], VaultKey).ok

====
